---- MODULE Spec2Model ----
(***************************************************************************)
(* Model of the test/resilience orchestrator of the distributed CRUD demo: *)
(* the readiness poller (waitForService), the infrastructure command       *)
(* runner (runDockerCommand / runCommand), the comprehensive runner        *)
(* (runAllTests / main), the recovery scenarios and the load generator     *)
(* with its metrics accumulator of tests/system-recovery.test.js.          *)
(*                                                                         *)
(* Each component has its own specification (SpecPoller, SpecCommand,      *)
(* SpecSuites, SpecRecovery, SpecLoad, SpecSummary); the variables of the  *)
(* other components stay at their idle values.                             *)
(***************************************************************************)
EXTENDS Integers, Sequences, FiniteSets, TLC

VARIABLES
    \* ---- readiness poller: waitForService(url, maxRetries, retryInterval)
    wfsPc,          \* "idle" | "loop" | "probe" | "sleep" | "done" | "threw"
    wfsMax,         \* argument maxRetries
    wfsI,           \* loop variable i
    wfsProbes,      \* number of axios.get(url/health) issued so far
    wfsWaits,       \* number of completed setTimeout(retryInterval) waits
    wfsLogs,        \* number of "Waiting for service ..." lines logged
    wfsResult,      \* "none" | "true" | "false"
    wfsEndpoint,    \* the endpoint: outcome of its n-th health probe
    cancelSignal,   \* an external cancellation signal has been raised
    wfsCancelAt,    \* probes issued when the signal was raised (-1: none)
    \* ---- command runner: runDockerCommand(command) / runCommand(command, options)
    cmdPc,          \* "idle" | "running" | "done" | "threw"
    cmdFn,          \* which runner was called
    cmdOptTimeout,  \* options.timeout given by the caller, 0 when absent
    cmdCalls,       \* calls of the runner so far
    cmdSpawns,      \* execSync process invocations so far
    cmdDur,         \* run time (ms) the last process needed
    cmdExit,        \* exit status of the last process
    cmdResult,      \* "none" | "success" | "failure"
    \* ---- comprehensive runner: runAllTests() and main()
    ratPc,          \* "idle" | "run" | "summary" | "returned" | "exited"
    ratIdx,         \* position in ExecOrder of the suite being run
    suiteState,     \* per suite: "notStarted" | "running" | "returned" | "threw"
    testResults,    \* per suite key: "unset" | "true" | "false"
    startOrder,     \* the suites in the order in which they were started
    requiredPassed, totalRequired, optionalPassed, totalOptional, totalPassed,
    verdict,        \* "none" | "all-pass" | "meets-minimum" | "failed"
    ratReturn,      \* value runAllTests returned: "none" | "true" | "false"
    exitCode,       \* process exit code, -1 while the process runs
    suiteChildren,  \* what the tests of the running suite returned so far
    \* ---- recovery suite: runSystemRecoveryTests() and its scenarios
    rsPc,           \* "idle" | "next" | "steps" | "done" | "threw"
    rsIdx,          \* position in ScenarioOrder of the scenario to run
    rsResults,      \* per scenario: "unset" | "true" | "false"
    rsReturn,       \* value the suite returned: "none" | "true" | "false"
    scName,         \* the scenario running or last run
    scStep,         \* position in Steps(scName) of the step to execute
    scLog,          \* names of the steps executed by that scenario, in order
    scObs,          \* what each executed step observed: "ok" | "err"
    scUp,           \* components answering /health when the scenario started
    scRead,         \* records the scenario's post-recovery read returned
    scStopped,      \* containers whose stop succeeded, no start succeeded since
    scEnvelope,     \* body of the list response read back: "none" | "array" | "object"
    \* ---- load generator: stressTest*, mixedLoadTest, monitorSystemPerformance
    lgPc,           \* "idle" | "running" | "done"
    lgKind,         \* "none" | "user" | "order" | "mixed" | "monitor"
    lgC,            \* number of virtual users of the run
    lgR,            \* STRESS_CONFIG.REQUESTS_PER_USER of the run
    lgNow,          \* Date.now(), in ms since the run was called
    lgUserPc,       \* per user: "timer" | "inflight" | "think" | "done"
    lgReq,          \* per user: requests issued so far
    lgReqStart,     \* per user: startTime of its latest request
    lgFirstIssue,   \* per user: time its first request was issued (-1: none)
    lgInflight,     \* requests <<user, number>> sent and not yet settled
    lgSettled,      \* requests that settled, each with its outcome
    testMetrics,    \* the module-level accumulator
    lgSummary,      \* the records calculateResults has returned, in order
    lgResult,       \* value the run returned: "none" | "true" | "false"
    lgSnapshots,    \* performanceMetrics.length (one per answered tick)
    lgMonResolved,  \* monitoringPromise has resolved
    lgTicks,        \* ticks of the monitoring interval: when begun, whether settled
    lgCarried,      \* the accumulator as the run found it when it was called
    lgLastSample,   \* Math.random() of the latest mixed request, in hundredths
    lgLastOp,       \* operation the latest request performed
    \* ---- scaling check: testScalingAutomation()
    saPc,           \* "idle" | "steps" | "done"
    saStep,         \* position in ScalingCommands of the command to run
    saRuns,         \* per command run: its run time, exit status and result
    saLog,          \* what the check logged after each command
    saReturn,       \* value the check returned: "none" | "true" | "false"
    \* ---- single-suite runner scripts: main() of scripts/run-*-tests.js
    rnPc,           \* "idle" | "waiting" | "calling" | "suite" | "returned" | "exited"
    rnScript,       \* the runner script that was started
    rnMain,         \* main() of the script awaits the suite (FALSE: another caller)
    rnChildren,     \* results of the suite's tests that have returned, in order
    rnSuiteReturn,  \* value the suite's run function returned: "none" | "true" | "false"
    rnCaught,       \* main's catch block was entered
    rnExit,         \* process exit code, -1 while the process runs
    \* ---- replication test: testReplication()
    rpPc,           \* "idle" | "write" | "wait" | "read" | "shutdown" | "done"
    rpWritten,      \* the INSERT through the first node resolved
    rpReads,        \* per node read so far: "found" | "missing" | "error"
    rpCount,        \* replicationCount
    rpShutdowns,    \* per client shut down so far: "ok" | "err"
    rpPending,      \* value the try or catch block returned, held by finally
    rpReturn,       \* value the test returned: "none" | "true" | "false"
    \* ---- startup of the user and the order service
    svPc,           \* "stopped" | "initializing" | "ready" | "exited"
    svService,      \* "none" | "user" | "order"
    svCassandra,    \* the Cassandra cluster answers queries
    svAnswers,      \* the GET /health requests answered so far, in order
    svInflight,     \* requests awaiting checkCassandraHealth: phase at arrival
    svClosing,      \* signals whose handler awaits closeConnection()
    svExit,         \* process exit code, -1 while the process runs
    \* ---- database module: waitForCassandraReady() and initializeDatabase()
    dbPc,           \* "idle" | "check" | "delay" | "schema" | "retryDelay" | "done"
    dbFn,           \* the function that was called
    dbWaitMax,      \* maxRetries of waitForCassandraReady
    dbWaitRetries,  \* retries of waitForCassandraReady
    dbChecks,       \* checkCassandraHealth calls so far
    dbCheckLog,     \* what each of these calls returned, in order
    dbWaits,        \* delay(retryInterval) calls of waitForCassandraReady so far
    dbWaitResult,   \* what waitForCassandraReady returned: "none" | "true" | "false"
    dbInitMax,      \* maxRetries of initializeDatabase
    dbInitRetries,  \* retries of initializeDatabase
    dbStmts,        \* schema statements executed so far, each with its outcome
    dbResult,       \* "none" | "true" | "false" | "threw"
    dbThrown,       \* the error initializeDatabase threw (<< >>: none)
    \* ---- POST /users, POST /orders and PUT /orders/:id of the two services
    stNow,          \* Date.now() of the services' clock, in ms
    stCalls,        \* POST requests received so far
    stPending,      \* creates that have drawn their id and await their INSERT
    stUsers,        \* rows of table users: id and the request that wrote it
    stOrders,       \* rows of table orders: id, writing request, status
    stCreated,      \* creates answered with 201: kind, request and id
    stOps,          \* PUT and DELETE requests received so far
    stWrites,       \* PUTs and DELETEs that await their UPDATE or DELETE query
    stAnswered,     \* PUT or DELETE answered last, with its status code (<< >>: none)
    \* ---- proxy handlers of the API gateway
    gwPc,           \* "idle" | "forwarding" | "done"
    gwRoute,        \* the route of the request being handled
    gwCalls,        \* requests received so far
    gwUpstream,     \* how the forwarded request settled
    gwSent          \* responses sent for the request being handled, in order

pollerVars == <<wfsPc, wfsMax, wfsI, wfsProbes, wfsWaits, wfsLogs, wfsResult,
                wfsEndpoint, cancelSignal, wfsCancelAt>>
commandVars == <<cmdPc, cmdFn, cmdOptTimeout, cmdCalls, cmdSpawns, cmdDur,
                 cmdExit, cmdResult>>

suiteVars == <<ratPc, ratIdx, suiteState, testResults, startOrder, requiredPassed,
               totalRequired, optionalPassed, totalOptional, totalPassed, verdict,
               ratReturn, exitCode, suiteChildren>>

recoveryVars == <<rsPc, rsIdx, rsResults, rsReturn, scName, scStep, scLog, scObs,
                  scUp, scRead, scStopped, scEnvelope>>

loadVars == <<lgPc, lgKind, lgC, lgR, lgNow, lgUserPc, lgReq, lgReqStart,
              lgFirstIssue, lgInflight, lgSettled, testMetrics, lgSummary, lgResult,
              lgSnapshots, lgMonResolved, lgTicks, lgCarried, lgLastSample, lgLastOp>>

scalingVars == <<saPc, saStep, saRuns, saLog, saReturn>>
runnerVars ==
    <<rnPc, rnScript, rnMain, rnChildren, rnSuiteReturn, rnCaught, rnExit>>
replVars == <<rpPc, rpWritten, rpReads, rpCount, rpShutdowns, rpPending, rpReturn>>
serviceVars ==
    <<svPc, svService, svCassandra, svAnswers, svInflight, svClosing, svExit>>
dbVars ==
    <<dbPc, dbFn, dbWaitMax, dbWaitRetries, dbChecks, dbCheckLog, dbWaits, dbWaitResult, dbInitMax,
      dbInitRetries, dbStmts, dbResult, dbThrown>>
storeVars ==
    <<stNow, stCalls, stPending, stUsers, stOrders, stCreated, stOps, stWrites,
      stAnswered>>
gatewayVars == <<gwPc, gwRoute, gwCalls, gwUpstream, gwSent>>

nonPollerVars ==
    <<commandVars, suiteVars, recoveryVars, loadVars, scalingVars, runnerVars,
      replVars, serviceVars, dbVars, storeVars, gatewayVars>>
nonCommandVars ==
    <<pollerVars, suiteVars, recoveryVars, loadVars, scalingVars, runnerVars,
      replVars, serviceVars, dbVars, storeVars, gatewayVars>>
nonSuiteVars ==
    <<pollerVars, commandVars, recoveryVars, loadVars, scalingVars, runnerVars,
      replVars, serviceVars, dbVars, storeVars, gatewayVars>>
nonRecoveryVars ==
    <<pollerVars, commandVars, suiteVars, loadVars, scalingVars, runnerVars,
      replVars, serviceVars, dbVars, storeVars, gatewayVars>>
nonLoadVars ==
    <<pollerVars, commandVars, suiteVars, recoveryVars, scalingVars,
      runnerVars, replVars, serviceVars, dbVars, storeVars, gatewayVars>>
nonScalingVars ==
    <<pollerVars, commandVars, suiteVars, recoveryVars, loadVars, runnerVars,
      replVars, serviceVars, dbVars, storeVars, gatewayVars>>
nonRunnerVars ==
    <<pollerVars, commandVars, suiteVars, recoveryVars, loadVars, scalingVars,
      replVars, serviceVars, dbVars, storeVars, gatewayVars>>
nonServiceVars ==
    <<pollerVars, commandVars, suiteVars, recoveryVars, loadVars, scalingVars,
      runnerVars, replVars, dbVars, storeVars, gatewayVars>>
nonReplVars ==
    <<pollerVars, commandVars, suiteVars, recoveryVars, loadVars, scalingVars,
      runnerVars, serviceVars, dbVars, storeVars, gatewayVars>>
nonDbVars ==
    <<pollerVars, commandVars, suiteVars, recoveryVars, loadVars, scalingVars,
      runnerVars, replVars, serviceVars, storeVars, gatewayVars>>
nonStoreVars ==
    <<pollerVars, commandVars, suiteVars, recoveryVars, loadVars, scalingVars,
      runnerVars, replVars, serviceVars, dbVars, gatewayVars>>
nonGatewayVars ==
    <<pollerVars, commandVars, suiteVars, recoveryVars, loadVars, scalingVars,
      runnerVars, replVars, serviceVars, dbVars, storeVars>>

(***************************************************************************)
(* Bounds of the model.                                                    *)
(***************************************************************************)
MaxAttempts == 3
MaxCalls == 2

(***************************************************************************)
(* Readiness poller.                                                       *)
(***************************************************************************)
\* What one GET <url>/health can do: answer 200, answer another 2xx status
\* (axios resolves), answer an error status (axios rejects), run into the
\* 5000 ms per-probe timeout, or fail in transport.
ProbeOutcomes == {"ok200", "ok204", "err500", "timeout", "netErr"}

\* axios.get rejects on timeout, transport error and non-2xx status.
Rejects(outcome) == outcome \in {"err500", "timeout", "netErr"}

\* response.status === 200
IsReadyAny2xx(outcome) == outcome \in {"ok200", "ok204"}
IsReady(outcome) == outcome = "ok200"

\* for (let i = 0; i < maxRetries; i++)
LoopCondInclusive(i, max) == i <= max
LoopCond(i, max) == i < max

\* try { ... } catch (error) { ... } around the probe catches every rejection.
Caught(outcome) == Rejects(outcome)

\* Outcome of the n-th probe against the endpoint; after the scripted
\* attempts the endpoint keeps answering as on the last one.
EndpointAnswer(n) ==
    IF n \in DOMAIN wfsEndpoint THEN wfsEndpoint[n]
    ELSE IF Len(wfsEndpoint) = 0 THEN "netErr"
    ELSE wfsEndpoint[Len(wfsEndpoint)]

PollerIdle ==
    /\ wfsPc = "idle"
    /\ wfsMax = 0
    /\ wfsI = 0
    /\ wfsProbes = 0
    /\ wfsWaits = 0
    /\ wfsLogs = 0
    /\ wfsResult = "none"
    /\ wfsEndpoint = << >>
    /\ cancelSignal = FALSE
    /\ wfsCancelAt = -1

\* A caller invokes waitForService against some endpoint.
WfsCall(max, endpoint) ==
    /\ wfsPc = "idle"
    /\ wfsPc' = "loop"
    /\ wfsMax' = max
    /\ wfsEndpoint' = endpoint
    /\ wfsI' = 0
    /\ UNCHANGED <<wfsProbes, wfsWaits, wfsLogs, wfsResult, cancelSignal, wfsCancelAt>>
    /\ UNCHANGED nonPollerVars

\* Loop head: either issue the next probe or fall out of the loop.
WfsLoop ==
    /\ wfsPc = "loop"
    /\ IF LoopCond(wfsI, wfsMax)
       THEN /\ wfsProbes' = wfsProbes + 1
            /\ wfsPc' = "probe"
            /\ UNCHANGED wfsResult
       ELSE /\ wfsResult' = "false"
            /\ wfsPc' = "done"
            /\ UNCHANGED wfsProbes
    /\ UNCHANGED <<wfsMax, wfsI, wfsWaits, wfsLogs, wfsEndpoint, cancelSignal,
                   wfsCancelAt>>
    /\ UNCHANGED nonPollerVars

\* The awaited probe resolves (2xx status).
WfsProbeResolve ==
    /\ wfsPc = "probe"
    /\ ~Rejects(EndpointAnswer(wfsProbes))
    /\ IF IsReady(EndpointAnswer(wfsProbes))
       THEN /\ wfsResult' = "true"
            /\ wfsPc' = "done"
            /\ UNCHANGED wfsI
       ELSE /\ wfsI' = wfsI + 1
            /\ wfsPc' = "loop"
            /\ UNCHANGED wfsResult
    /\ UNCHANGED <<wfsMax, wfsProbes, wfsWaits, wfsLogs, wfsEndpoint, cancelSignal,
                   wfsCancelAt>>
    /\ UNCHANGED nonPollerVars

\* The awaited probe rejects: the attempt is logged and the wait starts.
WfsProbeReject ==
    /\ wfsPc = "probe"
    /\ Rejects(EndpointAnswer(wfsProbes))
    /\ IF Caught(EndpointAnswer(wfsProbes))
       THEN /\ wfsLogs' = wfsLogs + 1
            /\ wfsPc' = "sleep"
       ELSE /\ wfsPc' = "threw"
            /\ UNCHANGED wfsLogs
    /\ UNCHANGED <<wfsMax, wfsI, wfsProbes, wfsWaits, wfsResult, wfsEndpoint,
                   cancelSignal, wfsCancelAt>>
    /\ UNCHANGED nonPollerVars

\* The retry interval has elapsed.
WfsWake ==
    /\ wfsPc = "sleep"
    /\ wfsWaits' = wfsWaits + 1
    /\ wfsI' = wfsI + 1
    /\ wfsPc' = "loop"
    /\ UNCHANGED <<wfsMax, wfsProbes, wfsLogs, wfsResult, wfsEndpoint, cancelSignal,
                   wfsCancelAt>>
    /\ UNCHANGED nonPollerVars

\* The environment raises a cancellation signal while the poller is polling.
\* waitForService takes no token and reads no signal, so nothing else changes.
CancelRequested ==
    /\ wfsPc \in {"probe", "sleep"}
    /\ ~cancelSignal
    /\ cancelSignal' = TRUE
    /\ wfsCancelAt' = wfsProbes
    /\ UNCHANGED <<wfsPc, wfsMax, wfsI, wfsProbes, wfsWaits, wfsLogs, wfsResult,
                   wfsEndpoint>>
    /\ UNCHANGED nonPollerVars

(***************************************************************************)
(* Infrastructure command runner.                                          *)
(***************************************************************************)
DockerTimeout == 60000
ShellTimeout == 120000

Runners == {"runDockerCommand", "runCommand"}
\* options.timeout values a caller of runCommand may pass (0: none given)
OptTimeouts == {0, 30000, 200000}
\* run times of the process, in ms
Durations == {1000, 59000, 61000, 119000, 121000, 201000}
ExitCodes == {0, 1}

\* The timeout execSync runs under: runDockerCommand fixes 60 s; runCommand
\* defaults to 120 s and spreads the caller's options over the default.
EffTimeoutShellOnly(fn, opt) == ShellTimeout
EffTimeout(fn, opt) ==
    IF fn = "runDockerCommand" THEN DockerTimeout
    ELSE IF opt # 0 THEN opt ELSE ShellTimeout

\* execSync throws when the process is killed at the timeout or exits non-zero.
ExecSyncThrows(timeout, dur, exit) == dur > timeout \/ exit # 0

\* Process invocations started by one call of the runner.
SpawnsPerCall == 1

CommandIdle ==
    /\ cmdPc = "idle"
    /\ cmdFn = "runDockerCommand"
    /\ cmdOptTimeout = 0
    /\ cmdCalls = 0
    /\ cmdSpawns = 0
    /\ cmdDur = 0
    /\ cmdExit = 0
    /\ cmdResult = "none"

\* A caller invokes the runner: execSync starts the process and blocks.
CmdCall(fn, opt) ==
    /\ cmdPc \in {"idle", "done"}
    /\ cmdCalls < MaxCalls
    /\ fn = "runDockerCommand" => opt = 0
    /\ cmdPc' = "running"
    /\ cmdFn' = fn
    /\ cmdOptTimeout' = opt
    /\ cmdCalls' = cmdCalls + 1
    /\ cmdSpawns' = cmdSpawns + SpawnsPerCall
    /\ cmdResult' = "none"
    /\ UNCHANGED <<cmdDur, cmdExit>>
    /\ UNCHANGED nonCommandVars

\* The process ends (or is killed at the timeout); the runner returns its
\* result object from the try or from the catch branch.
CmdProcEnds(dur, exit) ==
    /\ cmdPc = "running"
    /\ cmdDur' = dur
    /\ cmdExit' = exit
    /\ cmdResult' = IF ExecSyncThrows(EffTimeout(cmdFn, cmdOptTimeout), dur, exit)
                    THEN "failure" ELSE "success"
    /\ cmdPc' = "done"
    /\ UNCHANGED <<cmdFn, cmdOptTimeout, cmdCalls, cmdSpawns>>
    /\ UNCHANGED nonCommandVars

(***************************************************************************)
(* Recovery scenarios: runSystemRecoveryTests and its four scenarios.      *)
(***************************************************************************)
Components == {"gateway", "user", "order"}

\* results = { serviceRecovery: await ..., cassandraNodeRecovery: await ..., ... }
ScenarioOrder ==
    <<"serviceRecovery", "cassandraNodeRecovery", "apiGatewayRecovery",
      "completeSystemRecovery">>

\* The awaited or checked statements of each scenario's try block, in their
\* written order.  kind: "health" baseline health assertion, "data" creation
\* of test data, "fault" / "heal" infrastructure command, "wait" fixed sleep,
\* "degraded" check while the fault is in place, "poll" readiness poll,
\* "read" post-recovery read of the test data.
Steps(scenario) ==
    CASE scenario = "serviceRecovery" ->
           << [name |-> "checkAllServicesHealth", kind |-> "health"],
              [name |-> "createUser", kind |-> "data"],
              [name |-> "restartUserService", kind |-> "fault"],
              [name |-> "wait10s", kind |-> "wait"],
              [name |-> "waitForUserService", kind |-> "poll"],
              [name |-> "findUserAfterRecovery", kind |-> "read"] >>
      [] scenario = "cassandraNodeRecovery" ->
           << [name |-> "createUser", kind |-> "data"],
              [name |-> "stopCassandra2", kind |-> "fault"],
              [name |-> "wait5s", kind |-> "wait"],
              [name |-> "createUserWhileNodeDown", kind |-> "degraded"],
              [name |-> "startCassandra2", kind |-> "heal"],
              [name |-> "wait30s", kind |-> "wait"],
              [name |-> "findUsersAfterRejoin", kind |-> "read"] >>
      [] scenario = "apiGatewayRecovery" ->
           << [name |-> "gatewayHealth", kind |-> "health"],
              [name |-> "stopApiGateway", kind |-> "fault"],
              [name |-> "probeGatewayDown", kind |-> "degraded"],
              [name |-> "startApiGateway", kind |-> "heal"],
              [name |-> "waitForGateway", kind |-> "poll"],
              [name |-> "gatewayHealthAfterRecovery", kind |-> "read"] >>
      [] scenario = "completeSystemRecovery" ->
           << [name |-> "createUser", kind |-> "data"],
              [name |-> "createOrder", kind |-> "data"],
              [name |-> "restartSystem", kind |-> "fault"],
              [name |-> "wait60s", kind |-> "wait"],
              [name |-> "waitForAllServices", kind |-> "poll"],
              [name |-> "getUsers", kind |-> "read"],
              [name |-> "getOrdersAndFindBoth", kind |-> "read"] >>

\* The components whose /health a baseline health step requests:
\* checkAllServicesHealth asks gateway, user and order service in turn; the
\* first step of the gateway scenario asks the gateway alone.
HealthTargetsWithoutOrder(step) ==
    IF step.name = "checkAllServicesHealth" THEN {"gateway", "user"}
    ELSE {"gateway"}
HealthTargets(step) ==
    IF step.name = "checkAllServicesHealth" THEN {"gateway", "user", "order"}
    ELSE {"gateway"}

\* The components a request creating test data passes through: users are
\* posted to the user service, orders to the gateway, which forwards them to
\* the order service.
DataTargets(step) ==
    IF step.name = "createOrder" THEN {"gateway", "order"} ELSE {"user"}

\* What a step can observe: "ok" when its request resolved, its command
\* reported success, its poll returned true or its data was found; "err"
\* otherwise.  A sleep always completes; a baseline health step succeeds
\* exactly when every component it asks answers; test data (created before
\* any fault is injected) cannot be created through a component that was
\* not answering when the scenario started.
Observations(step, up) ==
    IF step.kind = "wait" THEN {"ok"}
    ELSE IF step.kind = "health"
         THEN {IF HealthTargets(step) \subseteq up THEN "ok" ELSE "err"}
    ELSE IF step.kind = "data" /\ ~(DataTargets(step) \subseteq up) THEN {"err"}
    ELSE {"ok", "err"}

\* The ids a post-recovery read looks up with data.find(x => x.id === id):
\* "u1" is the user created first, "u2" the user created while the Cassandra
\* node was down, "o1" the order.
Sought(step) ==
    CASE step.name = "findUserAfterRecovery" -> {"u1"}
      [] step.name = "findUsersAfterRejoin" -> {"u1", "u2"}
      [] step.name = "getOrdersAndFindBoth" -> {"u1", "o1"}
      [] OTHER -> {}

\* The records created before the scenario injects its fault.
PreFaultMarkers(scenario) ==
    CASE scenario = "serviceRecovery" -> {"u1"}
      [] scenario = "cassandraNodeRecovery" -> {"u1"}
      [] scenario = "completeSystemRecovery" -> {"u1", "o1"}
      [] OTHER -> {}

\* What the lists read back can hold for the ids a step looks up: per id at
\* most one record, whose payload is the one that was posted ("orig") or a
\* different one ("other").
Payloads == {"orig", "other"}
ReadLists(step) ==
    {l \in SUBSET [id : Sought(step), payload : Payloads] :
        \A u \in l, v \in l : u.id = v.id => u = v}

\* if (!recoveredUser) throw ...: a looked-up id for which find() returned
\* undefined.  find() compares the id alone.
MarkerLostIfEmpty(step, list) == Sought(step) # {} /\ list = {}
MarkerLost(step, list) ==
    \E id \in Sought(step) : ~(\E u \in list : u.id = id)

\* The body of a list response: the bare array of records, or an object
\* that wraps it ({users, count, limit, timestamp}).  The scenarios call
\* data.find(...) on the body itself: an array has find, the wrapping object
\* has none and the call throws a TypeError.
Envelopes == {"array", "object"}
FindThrows(envelope) == envelope = "object"

\* The statements of a scenario that lie inside its try block: all of them.
TryBlockAfterFirst(scenario) == DOMAIN Steps(scenario) \ {1}
TryBlock(scenario) == DOMAIN Steps(scenario)

\* Whether the step makes the scenario throw into its catch block.  The
\* gateway-down probe is inverted: an answer from the stopped gateway throws
\* 'should be down', a failed request is the expected case.
StepFailsIgnoringPoll(step, obs) ==
    IF step.name = "probeGatewayDown" THEN obs = "ok"
    ELSE obs = "err" /\ step.kind # "poll"
StepFailsIgnoringDegraded(step, obs) ==
    IF step.name = "probeGatewayDown" THEN FALSE
    ELSE obs = "err" /\ step.kind # "degraded"
StepFailsIgnoringFault(step, obs) ==
    IF step.name = "probeGatewayDown" THEN obs = "ok"
    ELSE obs = "err" /\ step.kind # "fault"
StepFails(step, obs) ==
    IF step.name = "probeGatewayDown" THEN obs = "ok" ELSE obs = "err"

\* The containers a docker-compose command of a scenario stops and starts
\* when it reports success; 'restart' without a service name restarts every
\* service of the project, stopped ones included.
Containers == {"cassandra2", "api_gateway"}
Stops(step) ==
    CASE step.name = "stopCassandra2" -> {"cassandra2"}
      [] step.name = "stopApiGateway" -> {"api_gateway"}
      [] OTHER -> {}
Starts(step) ==
    CASE step.name = "startCassandra2" -> {"cassandra2"}
      [] step.name = "startApiGateway" -> {"api_gateway"}
      [] step.name = "restartSystem" -> Containers
      [] OTHER -> {}

\* Object.values(results).every(result => result === true)
EveryTrue(results) == \A k \in DOMAIN results : results[k] = "true"

RecoveryIdle ==
    /\ rsPc = "idle"
    /\ rsIdx = 1
    /\ rsResults = [k \in {ScenarioOrder[n] : n \in DOMAIN ScenarioOrder} |-> "unset"]
    /\ rsReturn = "none"
    /\ scName = "none"
    /\ scStep = 1
    /\ scLog = << >>
    /\ scObs = << >>
    /\ scUp = Components
    /\ scRead = {}
    /\ scStopped = {}
    /\ scEnvelope = "none"

\* runSystemRecoveryTests is called.
RsCall ==
    /\ rsPc = "idle"
    /\ rsPc' = "next"
    /\ UNCHANGED <<rsIdx, rsResults, rsReturn, scName, scStep, scLog, scObs, scUp,
                   scRead, scStopped, scEnvelope>>
    /\ UNCHANGED nonRecoveryVars

\* The next scenario function is called; up is the set of components that
\* answer their health endpoint at that moment.
ScenarioStart(up) ==
    /\ rsPc = "next"
    /\ rsIdx <= Len(ScenarioOrder)
    /\ rsPc' = "steps"
    /\ scName' = ScenarioOrder[rsIdx]
    /\ scStep' = 1
    /\ scLog' = << >>
    /\ scObs' = << >>
    /\ scUp' = up
    /\ scRead' = {}
    /\ scEnvelope' = "none"
    /\ UNCHANGED <<rsIdx, rsResults, rsReturn, scStopped>>
    /\ UNCHANGED nonRecoveryVars

\* The running scenario executes its next step; list is what a resolved
\* post-recovery read returned for the ids it looks up.  A failing step
\* throws: inside the try block the catch returns false, outside it the
\* exception leaves the scenario and the suite.  After the last step the
\* scenario returns true.
ScenarioStep(obs, list, envelope) ==
    /\ rsPc = "steps"
    /\ obs \in Observations(Steps(scName)[scStep], scUp)
    /\ list \in (IF obs = "ok" THEN ReadLists(Steps(scName)[scStep]) ELSE {{}})
    /\ envelope \in (IF obs = "ok" /\ Sought(Steps(scName)[scStep]) # {}
                     THEN Envelopes ELSE {scEnvelope})
    /\ scEnvelope' = envelope
    /\ scLog' = Append(scLog, Steps(scName)[scStep].name)
    /\ scObs' = Append(scObs, obs)
    /\ scRead' = IF Sought(Steps(scName)[scStep]) # {} THEN list ELSE scRead
    /\ scStopped' = IF obs = "ok"
                     THEN (scStopped \cup Stops(Steps(scName)[scStep]))
                              \ Starts(Steps(scName)[scStep])
                     ELSE scStopped
    /\ IF \/ StepFails(Steps(scName)[scStep], obs)
          \/ (obs = "ok" /\ Sought(Steps(scName)[scStep]) # {} /\ FindThrows(envelope))
          \/ (obs = "ok" /\ MarkerLost(Steps(scName)[scStep], list))
       THEN IF scStep \in TryBlock(scName)
            THEN /\ rsResults' = [rsResults EXCEPT ![scName] = "false"]
                 /\ rsPc' = "next"
                 /\ rsIdx' = rsIdx + 1
                 /\ UNCHANGED scStep
            ELSE /\ rsPc' = "threw"
                 /\ UNCHANGED <<rsIdx, rsResults, scStep>>
       ELSE IF scStep = Len(Steps(scName))
       THEN /\ rsResults' = [rsResults EXCEPT ![scName] = "true"]
            /\ rsPc' = "next"
            /\ rsIdx' = rsIdx + 1
            /\ UNCHANGED scStep
       ELSE /\ scStep' = scStep + 1
            /\ UNCHANGED <<rsPc, rsIdx, rsResults>>
    /\ UNCHANGED <<rsReturn, scName, scUp>>
    /\ UNCHANGED nonRecoveryVars

\* All four scenarios have returned: the suite returns allPassed.
RsReturn ==
    /\ rsPc = "next"
    /\ rsIdx > Len(ScenarioOrder)
    /\ rsReturn' = IF EveryTrue(rsResults) THEN "true" ELSE "false"
    /\ rsPc' = "done"
    /\ UNCHANGED <<rsIdx, rsResults, scName, scStep, scLog, scObs, scUp, scRead,
                   scStopped, scEnvelope>>
    /\ UNCHANGED nonRecoveryVars

(***************************************************************************)
(* Load generator and metrics accumulator: stressTestUserService,          *)
(* stressTestOrderService, mixedLoadTest, monitorSystemPerformance, the    *)
(* simulate*Requests loops of the virtual users and calculateResults.      *)
(* JavaScript runs each callback to its next await without interruption,   *)
(* so an action is one such synchronous stretch.                           *)
(***************************************************************************)
\* Largest number of virtual users of a run.
MaxUsers == 2
\* Largest number of requests (users times requests per user) of a run.
MaxRequests == 4
\* Largest number of load requests counted during one monitoring run.
MaxMonitorRequests == 2
\* Largest number of requests an earlier run may have left in the
\* accumulator when a further run is called.
MaxCarried == 1
\* Largest number of recorded requests handed to calculateResults directly.
MaxTotal == 20
\* Largest number of health requests followed at one service.
MaxAnswers == 3
MaxDbRetries == 3
MaxClock == 1
\* Largest number of POST, PUT and DELETE requests the services receive.
MaxWrites == 3

\* STRESS_CONFIG.RAMP_UP_TIME and monitoringDuration, in ms.
RampUpTime == 5000
MonitoringDuration == 30000
\* const monitoringInterval = 2000
MonitoringInterval == 2000

LoadKinds == {"user", "order", "mixed", "monitor"}

\* The three stress tests schedule their users with a ramp-up delay, reset
\* the accumulator and summarise it; monitorSystemPerformance does neither.
Ramped(kind) == kind # "monitor"

\* for (let user = 0; user < c; user++)
UserIds(c) == 0..(c - 1)

\* How a request settles: axios resolves on a 2xx answer and rejects on its
\* timeout and on any other status.
RequestOutcomes == {"ok", "timeout", "httpErr"}

\* error.message of the rejection.
ErrorMessage(outcome) ==
    IF outcome = "timeout" THEN "timeout of 10000ms exceeded"
    ELSE "Request failed with status code 500"

\* resetMetrics(), which is also the module's initial testMetrics; null
\* times are written -1.
ZeroMetrics ==
    [totalRequests |-> 0, successfulRequests |-> 0, failedRequests |-> 0,
     responseTimes |-> << >>, errors |-> << >>, startTime |-> -1, endTime |-> -1]

\* The statements after a resolved request.
OnSuccessUntimed(m, responseTime) ==
    [m EXCEPT !.totalRequests = @ + 1, !.successfulRequests = @ + 1]
OnSuccess(m, responseTime) ==
    [m EXCEPT !.totalRequests = @ + 1,
              !.successfulRequests = @ + 1,
              !.responseTimes = Append(@, responseTime)]

\* The catch block of a request.
OnFailureUncounted(m, message) ==
    [m EXCEPT !.failedRequests = @ + 1, !.errors = Append(@, message)]
OnFailure(m, message) ==
    [m EXCEPT !.totalRequests = @ + 1,
              !.failedRequests = @ + 1,
              !.errors = Append(@, message)]

\* for (let req = 0; req < STRESS_CONFIG.REQUESTS_PER_USER; req++)
MoreRequestsInclusive(req, r) == req <= r
MoreRequests(req, r) == req < r

\* const delay = (user / CONCURRENT_USERS) * RAMP_UP_TIME; setTimeout(..., delay):
\* the timer keeps the whole milliseconds of the delay (for fewer than 100
\* users the double has the whole part of i * RAMP_UP_TIME / c) and counts
\* them on the clock of the event loop.  elapsed is measured with Date.now():
\* the two clocks tick whole milliseconds at different moments, so by
\* Date.now() the callback of user i can run 1 ms before the delay is over.
RampDelayIgnored(i, c, elapsed) == elapsed >= 0
RampDelayElapsed(i, c, elapsed) == elapsed + 1 >= (i * RampUpTime) \div c

\* const response = await axios...: the user is suspended until the request
\* it has just sent settles.
PcAfterIssueNoAwait == "think"
PcAfterIssue == "inflight"

\* await Promise.all(promises): every user's promise has resolved.
JoinReadyOnFirst(pcs) == \E i \in DOMAIN pcs : pcs[i] = "done"
JoinReady(pcs) == \A i \in DOMAIN pcs : pcs[i] = "done"

\* A quotient n / d, kept as the pair of its operands.
Frac(n, d) == [num |-> n, den |-> d]

\* d > 0 ? n / d : 0
RatioUnguarded(n, d) == Frac(n, d)
Ratio(n, d) == IF d > 0 THEN Frac(n, d) ELSE Frac(0, 1)

RECURSIVE SeqSum(_)
SeqSum(q) == IF q = << >> THEN 0 ELSE Head(q) + SeqSum(Tail(q))

RECURSIVE SeqMin(_)
SeqMin(q) ==
    IF Len(q) = 1 THEN Head(q)
    ELSE IF Head(q) <= SeqMin(Tail(q)) THEN Head(q) ELSE SeqMin(Tail(q))

RECURSIVE SeqMax(_)
SeqMax(q) ==
    IF Len(q) = 1 THEN Head(q)
    ELSE IF Head(q) >= SeqMax(Tail(q)) THEN Head(q) ELSE SeqMax(Tail(q))

\* calculateResults(): quotients are Frac pairs, requestsPerSecond being
\* (totalRequests / duration) * 1000.
CalculateResults(m) ==
    [totalRequests |-> m.totalRequests,
     successfulRequests |-> m.successfulRequests,
     failedRequests |-> m.failedRequests,
     successRate |-> Ratio(m.successfulRequests, m.totalRequests),
     duration |-> m.endTime - m.startTime,
     avgResponseTime |-> Ratio(SeqSum(m.responseTimes), Len(m.responseTimes)),
     minResponseTime |->
        IF Len(m.responseTimes) > 0 THEN SeqMin(m.responseTimes) ELSE 0,
     maxResponseTime |->
        IF Len(m.responseTimes) > 0 THEN SeqMax(m.responseTimes) ELSE 0,
     requestsPerSecond |-> Ratio(m.totalRequests * 1000, m.endTime - m.startTime),
     errorTypes |-> {m.errors[k] : k \in DOMAIN m.errors}]

\* return results.successRate >= 0.95, and >= 0.90 in mixedLoadTest; the
\* threshold in percent.
SuccessThreshold(kind) == IF kind = "mixed" THEN 90 ELSE 95
MeetsThresholdStrictly(rate, kind) ==
    rate.num * 100 > SuccessThreshold(kind) * rate.den
MeetsThreshold(rate, kind) ==
    rate.num * 100 >= SuccessThreshold(kind) * rate.den

\* The ticks of the monitoring interval that are followed: the last one
\* before monitoringDuration has passed and the first two from then on.
TickTimes ==
    {MonitoringDuration + k * MonitoringInterval : k \in {-1, 0, 1}}

\* The values Date.now() is followed through: for each ramp-up timer the
\* earliest value at which its callback can run and the value at which it
\* falls due (a single user has no such timer: the end of the ramp-up), or
\* the ticks around the end of the monitoring duration.
ClockPoints(kind, c) ==
    IF Ramped(kind)
    THEN IF c = 1
         THEN {RampUpTime}
         ELSE UNION {{(i * RampUpTime) \div c - 1, (i * RampUpTime) \div c} :
                        i \in 1..(c - 1)}
    ELSE TickTimes

\* Values of Math.random(), in hundredths: both ends of [0, 1) and both
\* sides of each threshold of simulateMixedRequests.
Samples == {0, 49, 50, 79, 80, 99}

\* Values of the second Math.random() of a read, on both sides of one half.
ReadSamples == {49, 50}

\* The samples a request of a run of the given kind draws; only
\* simulateMixedRequests draws any.
Draws(kind) ==
    IF kind = "mixed" THEN Samples \X ReadSamples ELSE {<<-1, -1>>}

\* The operation a request performs.  simulateUserRequests creates a user
\* and simulateOrderRequests an order; simulateMixedRequests compares one
\* sample s with its two thresholds and, for a read, a second sample s2
\* with one half.
OperationByThirds(kind, s, s2) ==
    IF kind = "order" THEN "createOrder"
    ELSE IF kind # "mixed" THEN "createUser"
    ELSE IF s < 33 THEN "createUser"
    ELSE IF s < 66 THEN "createOrder"
    ELSE IF s2 < 50 THEN "readUsers" ELSE "readOrders"
Operation(kind, s, s2) ==
    IF kind = "order" THEN "createOrder"
    ELSE IF kind # "mixed" THEN "createUser"
    ELSE IF s < 50 THEN "createUser"
    ELSE IF s < 80 THEN "createOrder"
    ELSE IF s2 < 50 THEN "readUsers" ELSE "readOrders"

\* Whether a load function calls resetMetrics() before it generates load.
ResetsMetricsAlways(kind) == TRUE
ResetsMetrics(kind) == kind \in {"user", "order", "mixed"}

\* totalRequests as a run of the given kind starts counting from it.
StartCount(kind, m) == IF ResetsMetrics(kind) THEN 0 ELSE m.totalRequests

LoadIdle ==
    /\ lgPc = "idle"
    /\ lgKind = "none"
    /\ lgC = 0
    /\ lgR = 0
    /\ lgNow = 0
    /\ lgUserPc = << >>
    /\ lgReq = << >>
    /\ lgReqStart = << >>
    /\ lgFirstIssue = << >>
    /\ lgInflight = {}
    /\ lgSettled = {}
    /\ testMetrics = ZeroMetrics
    /\ lgSummary = << >>
    /\ lgResult = "none"
    /\ lgSnapshots = 0
    /\ lgMonResolved = FALSE
    /\ lgTicks = {}
    /\ lgCarried = ZeroMetrics
    /\ lgLastSample = -1
    /\ lgLastOp = "none"

\* User i starts the next iteration of its loop: it sends request
\* lgReq[i] + 1 and awaits it.  infl is the set of requests in flight.
\* simulateMixedRequests draws the operation of the request first.
Issue(i, infl) ==
    /\ \E d \in Draws(lgKind) :
          /\ lgLastSample' = d[1]
          /\ lgLastOp' = Operation(lgKind, d[1], d[2])
    /\ lgReq' = [lgReq EXCEPT ![i] = @ + 1]
    /\ lgReqStart' = [lgReqStart EXCEPT ![i] = lgNow]
    /\ lgFirstIssue' = [lgFirstIssue EXCEPT ![i] = IF @ = -1 THEN lgNow ELSE @]
    /\ lgInflight' = infl \cup {<<i, lgReq[i] + 1>>}
    /\ lgUserPc' = [lgUserPc EXCEPT ![i] = PcAfterIssue]

\* The loop condition of user i is evaluated: it sends its next request or
\* simulate*Requests returns.
IssueOrFinish(i, infl) ==
    IF MoreRequests(lgReq[i], lgR)
    THEN Issue(i, infl)
    ELSE /\ lgUserPc' = [lgUserPc EXCEPT ![i] = "done"]
         /\ lgInflight' = infl
         /\ UNCHANGED <<lgReq, lgReqStart, lgFirstIssue, lgLastSample, lgLastOp>>

\* One of the four load functions is called with c virtual users issuing r
\* requests each, as the first run of the process or after an earlier run
\* returned.  The stress tests reset the accumulator, stamp startTime
\* and arm one ramp-up timer per user; monitorSystemPerformance calls
\* simulateUserRequests for every user at once, each sending its first
\* request, and leaves the accumulator as it is.
LgCall(kind, c, r) ==
    /\ lgPc \in {"idle", "done"}
    /\ lgPc = "done" => testMetrics.totalRequests <= MaxCarried
    /\ c <= MaxUsers
    /\ StartCount(kind, testMetrics) + c * r <=
          (IF Ramped(kind) THEN MaxRequests ELSE MaxMonitorRequests)
    /\ lgPc' = "running"
    /\ lgKind' = kind
    /\ lgC' = c
    /\ lgR' = r
    /\ testMetrics' = IF ResetsMetrics(kind)
                      THEN [ZeroMetrics EXCEPT !.startTime = 0]
                      ELSE testMetrics
    /\ IF Ramped(kind)
       THEN /\ lgLastSample' = -1
            /\ lgLastOp' = "none"
            /\ lgUserPc' = [i \in UserIds(c) |-> "timer"]
            /\ lgReq' = [i \in UserIds(c) |-> 0]
            /\ lgReqStart' = [i \in UserIds(c) |-> -1]
            /\ lgFirstIssue' = [i \in UserIds(c) |-> -1]
            /\ lgInflight' = {}
       ELSE /\ lgUserPc' = [i \in UserIds(c) |->
                              IF MoreRequests(0, r) THEN PcAfterIssue ELSE "done"]
            /\ lgReq' = [i \in UserIds(c) |-> IF MoreRequests(0, r) THEN 1 ELSE 0]
            /\ lgReqStart' = [i \in UserIds(c) |->
                                IF MoreRequests(0, r) THEN 0 ELSE -1]
            /\ lgFirstIssue' = [i \in UserIds(c) |->
                                  IF MoreRequests(0, r) THEN 0 ELSE -1]
            /\ lgInflight' = IF MoreRequests(0, r)
                             THEN {<<i, 1>> : i \in UserIds(c)} ELSE {}
            /\ lgLastSample' = -1
            /\ lgLastOp' = IF MoreRequests(0, r)
                           THEN Operation(kind, -1, -1) ELSE "none"
    /\ lgCarried' = testMetrics'
    /\ lgNow' = 0
    /\ lgSettled' = {}
    /\ lgSummary' = << >>
    /\ lgResult' = "none"
    /\ lgSnapshots' = 0
    /\ lgMonResolved' = FALSE
    /\ lgTicks' = {}
    /\ UNCHANGED nonLoadVars

\* Time passes.
LgAdvance(t) ==
    /\ lgPc = "running"
    /\ t \in ClockPoints(lgKind, lgC)
    /\ t > lgNow
    /\ lgNow' = t
    /\ UNCHANGED <<lgPc, lgKind, lgC, lgR, lgUserPc, lgReq, lgReqStart,
                   lgFirstIssue, lgInflight, lgSettled, testMetrics, lgSummary,
                   lgResult, lgSnapshots, lgMonResolved, lgTicks, lgCarried, lgLastSample,
                   lgLastOp>>
    /\ UNCHANGED nonLoadVars

\* The ramp-up timer of user i fires: simulate*Requests(i) is called and
\* runs to its first await.
LgUserStart(i) ==
    /\ lgPc = "running"
    /\ i \in DOMAIN lgUserPc
    /\ lgUserPc[i] = "timer"
    /\ RampDelayElapsed(i, lgC, lgNow - testMetrics.startTime)
    /\ IssueOrFinish(i, lgInflight)
    /\ UNCHANGED <<lgPc, lgKind, lgC, lgR, lgNow, lgSettled, testMetrics,
                   lgSummary, lgResult, lgSnapshots, lgMonResolved, lgTicks, lgCarried>>
    /\ UNCHANGED nonLoadVars

\* A request of user i settles.  Resolved: the outcome and its response
\* time are recorded and the think-time timer is armed.  Rejected: the
\* catch block records the failure and the loop goes straight on to its
\* next iteration.
LgRequestSettles(i, outcome) ==
    /\ lgPc = "running"
    /\ \E k \in 1..(lgR + 1) :
          /\ <<i, k>> \in lgInflight
          /\ lgSettled' = lgSettled \cup {[user |-> i, req |-> k, outcome |-> outcome]}
          /\ IF outcome = "ok"
             THEN /\ testMetrics' = OnSuccess(testMetrics, lgNow - lgReqStart[i])
                  /\ lgUserPc' = [lgUserPc EXCEPT ![i] = "think"]
                  /\ lgInflight' = lgInflight \ {<<i, k>>}
                  /\ UNCHANGED <<lgReq, lgReqStart, lgFirstIssue, lgLastSample,
                                 lgLastOp>>
             ELSE /\ testMetrics' = OnFailure(testMetrics, ErrorMessage(outcome))
                  /\ IssueOrFinish(i, lgInflight \ {<<i, k>>})
    /\ UNCHANGED <<lgPc, lgKind, lgC, lgR, lgNow, lgSummary, lgResult,
                   lgSnapshots, lgMonResolved, lgTicks, lgCarried>>
    /\ UNCHANGED nonLoadVars

\* The think-time timer of user i fires: the loop continues.
LgThinkDone(i) ==
    /\ lgPc = "running"
    /\ i \in DOMAIN lgUserPc
    /\ lgUserPc[i] = "think"
    /\ IssueOrFinish(i, lgInflight)
    /\ UNCHANGED <<lgPc, lgKind, lgC, lgR, lgNow, lgSettled, testMetrics,
                   lgSummary, lgResult, lgSnapshots, lgMonResolved, lgTicks, lgCarried>>
    /\ UNCHANGED nonLoadVars

\* A tick of the monitor resolves the monitoring promise: only inside the
\* try block, after the /metrics request of the tick succeeded and its
\* snapshot was pushed, when the tick began monitoringDuration after the start.
TickResolvesOnError(ok, now) == now >= MonitoringDuration
TickResolves(ok, now) == ok /\ now >= MonitoringDuration

\* The monitoring interval fires while it is not cleared: the callback reads
\* currentTime, sends GET /metrics and awaits it.
LgMonitorTick ==
    /\ lgPc = "running"
    /\ lgKind = "monitor"
    /\ ~lgMonResolved
    /\ lgNow \in TickTimes
    /\ \A k \in lgTicks : k.at # lgNow
    /\ lgTicks' = lgTicks \cup {[at |-> lgNow, st |-> "flight"]}
    /\ UNCHANGED <<lgPc, lgKind, lgC, lgR, lgNow, lgUserPc, lgReq, lgReqStart,
                   lgFirstIssue, lgInflight, lgSettled, testMetrics, lgSummary,
                   lgResult, lgSnapshots, lgMonResolved, lgCarried, lgLastSample,
                   lgLastOp>>
    /\ UNCHANGED nonLoadVars

\* The GET /metrics of the tick begun at time at settles, be it after the
\* interval was cleared or the function returned: a resolved request pushes
\* a snapshot and, when the tick began monitoringDuration or more after the
\* start, clears the interval and resolves monitoringPromise; a rejected
\* one is logged.
LgMetricsSettles(at, ok) ==
    /\ lgPc \in {"running", "done"}
    /\ lgKind = "monitor"
    /\ [at |-> at, st |-> "flight"] \in lgTicks
    /\ lgTicks' = (lgTicks \ {[at |-> at, st |-> "flight"]})
                      \cup {[at |-> at, st |-> "settled"]}
    /\ lgSnapshots' = IF ok THEN lgSnapshots + 1 ELSE lgSnapshots
    /\ lgMonResolved' = (lgMonResolved \/ TickResolves(ok, at))
    /\ UNCHANGED <<lgPc, lgKind, lgC, lgR, lgNow, lgUserPc, lgReq, lgReqStart,
                   lgFirstIssue, lgInflight, lgSettled, testMetrics, lgSummary,
                   lgResult, lgCarried, lgLastSample, lgLastOp>>
    /\ UNCHANGED nonLoadVars

\* The awaited Promise.all resolves.  A stress test stamps endTime, calls
\* calculateResults and returns whether the success rate meets its
\* threshold; monitorSystemPerformance returns performanceMetrics.length > 0.
LgJoin ==
    /\ lgPc = "running"
    /\ JoinReady(lgUserPc)
    /\ Ramped(lgKind) \/ lgMonResolved
    /\ lgPc' = "done"
    /\ IF Ramped(lgKind)
       THEN /\ testMetrics' = [testMetrics EXCEPT !.endTime = lgNow]
            /\ lgSummary' = Append(lgSummary, CalculateResults(testMetrics'))
            /\ lgResult' =
                  IF MeetsThreshold(CalculateResults(testMetrics').successRate, lgKind)
                  THEN "true" ELSE "false"
       ELSE /\ lgResult' = IF lgSnapshots > 0 THEN "true" ELSE "false"
            /\ UNCHANGED <<testMetrics, lgSummary>>
    /\ UNCHANGED <<lgKind, lgC, lgR, lgNow, lgUserPc, lgReq, lgReqStart,
                   lgFirstIssue, lgInflight, lgSettled, lgSnapshots, lgMonResolved, lgTicks,
                   lgCarried, lgLastSample, lgLastOp>>
    /\ UNCHANGED nonLoadVars

(***************************************************************************)
(* Scaling check of the deployment suite: testScalingAutomation.           *)
(***************************************************************************)
\* The commands of the check, in their written order.
ScalingCommands == <<"scaleUp", "listContainers", "scaleDown">>

\* What the check does when a command reported failure: the scale commands
\* log a warning, the listing logs nothing; none of them throws.
OnCommandFailureThrowing(command) ==
    IF command = "scaleUp" THEN "throw"
    ELSE IF command = "listContainers" THEN "nothing" ELSE "warn"
OnCommandFailure(command) ==
    IF command = "listContainers" THEN "nothing" ELSE "warn"

\* What the check logs when a command reported success.
OnCommandSuccess(command) ==
    IF command = "scaleDown" THEN "nothing" ELSE "info"

ScalingIdle ==
    /\ saPc = "idle"
    /\ saStep = 1
    /\ saRuns = << >>
    /\ saLog = << >>
    /\ saReturn = "none"

\* testScalingAutomation is called.
SaCall ==
    /\ saPc = "idle"
    /\ saPc' = "steps"
    /\ UNCHANGED <<saStep, saRuns, saLog, saReturn>>
    /\ UNCHANGED nonScalingVars

\* The check runs its next command through runCommand, whose process takes
\* dur ms and exits with status exit, and handles the result object.  After
\* the last command it returns true; a throw inside the try returns false.
SaCommand(dur, exit) ==
    /\ saPc = "steps"
    /\ LET failed == ExecSyncThrows(EffTimeout("runCommand", 0), dur, exit)
           branch == IF failed THEN OnCommandFailure(ScalingCommands[saStep])
                     ELSE OnCommandSuccess(ScalingCommands[saStep])
       IN /\ saRuns' = Append(saRuns, [dur |-> dur, exit |-> exit,
                                        success |-> ~failed])
          /\ saLog' = Append(saLog, branch)
          /\ IF branch = "throw"
             THEN /\ saPc' = "done"
                  /\ saReturn' = "false"
                  /\ UNCHANGED saStep
             ELSE IF saStep = Len(ScalingCommands)
             THEN /\ saPc' = "done"
                  /\ saReturn' = "true"
                  /\ UNCHANGED saStep
             ELSE /\ saStep' = saStep + 1
                  /\ UNCHANGED <<saPc, saReturn>>
    /\ UNCHANGED nonScalingVars

(***************************************************************************)
(* Single-suite runner scripts: scripts/run-<suite>-tests.js.              *)
(***************************************************************************)
RunnerScripts ==
    {"distributed", "replication", "monitoring", "stress", "recovery", "deployment"}

\* The name each script destructures from the test module it requires.
Imported(script) ==
    CASE script = "distributed" -> "runAllTests"
      [] script = "replication" -> "runReplicationTests"
      [] script = "monitoring" -> "runMonitoringLoggingTests"
      [] script = "stress" -> "runAllStressTests"
      [] script = "recovery" -> "runSystemRecoveryTests"
      [] script = "deployment" -> "runDeploymentAutomationTests"

\* The tests of the suite each script requires, in the order in which the
\* suite's run function awaits them.
ChildTests(script) ==
    CASE script = "distributed" -> <<"testServiceCommunication", "testCassandraFailover">>
      [] script = "replication" ->
           <<"testReplication", "testConsistency", "testCrossServiceReplication">>
      [] script = "monitoring" ->
           <<"testHealthChecks", "testMonitoringEndpoint", "testMetricsEndpoint",
             "testLogsEndpoint", "testLogFileCreation", "testCLIOutput">>
      [] script = "stress" ->
           <<"stressTestUserService", "stressTestOrderService", "mixedLoadTest",
             "monitorSystemPerformance">>
      [] script = "recovery" ->
           <<"testServiceRecovery", "testCassandraNodeRecovery",
             "testAPIGatewayRecovery", "testCompleteSystemRecovery">>
      [] script = "deployment" ->
           <<"testDockerComposeAutomation", "testDeploymentScript",
             "testHealthCheckAutomation", "testScalingAutomation">>

\* The run function of the suite.
RunFunction(script) ==
    CASE script = "distributed" -> "runDistributedCommunicationTests"
      [] script = "replication" -> "runReplicationTests"
      [] script = "monitoring" -> "runMonitoringLoggingTests"
      [] script = "stress" -> "runAllStressTests"
      [] script = "recovery" -> "runSystemRecoveryTests"
      [] script = "deployment" -> "runDeploymentAutomationTests"

\* module.exports of the module the script requires: the suite's tests and
\* its run function.  The stress script requires '../tests/stress-test',
\* a file that assigns nothing to module.exports.
Exported(script) ==
    IF script = "stress"
    THEN {}
    ELSE {ChildTests(script)[n] : n \in DOMAIN ChildTests(script)}
            \cup {RunFunction(script)}

\* Whether main sleeps 30 s for the services to start before it calls the
\* suite: every script but the deployment one.
StartupWait(script) == script # "deployment"

\* The exit code main passes to process.exit for the value the suite
\* returned.
RunnerExitCode(success) == IF success = "true" THEN 0 ELSE 1

RunnerIdle ==
    /\ rnPc = "idle"
    /\ rnScript = "none"
    /\ rnMain = FALSE
    /\ rnChildren = << >>
    /\ rnSuiteReturn = "none"
    /\ rnCaught = FALSE
    /\ rnExit = -1

\* node scripts/run-<suite>-tests.js: main() runs to its first await.
RnMain(script) ==
    /\ rnPc = "idle"
    /\ rnScript' = script
    /\ rnMain' = TRUE
    /\ rnPc' = IF StartupWait(script) THEN "waiting" ELSE "calling"
    /\ UNCHANGED <<rnChildren, rnSuiteReturn, rnCaught, rnExit>>
    /\ UNCHANGED nonRunnerVars

\* The 30 s timer fires.
RnWaited ==
    /\ rnPc = "waiting"
    /\ rnPc' = "calling"
    /\ UNCHANGED <<rnScript, rnMain, rnChildren, rnSuiteReturn, rnCaught, rnExit>>
    /\ UNCHANGED nonRunnerVars

\* The suite's run function is called by a module that requires the suite's
\* own module and takes the run function from its exports, not by main of
\* the suite's script.
RnRunSuite(script) ==
    /\ rnPc = "idle"
    /\ rnScript' = script
    /\ rnMain' = FALSE
    /\ rnPc' = "suite"
    /\ UNCHANGED <<rnChildren, rnSuiteReturn, rnCaught, rnExit>>
    /\ UNCHANGED nonRunnerVars

\* main calls the function it imported.  A name the module does not export
\* is undefined: the call throws a TypeError, main's catch logs it and
\* exits with code 1.
RnCallSuite ==
    /\ rnPc = "calling"
    /\ IF Imported(rnScript) \in Exported(rnScript)
       THEN /\ rnPc' = "suite"
            /\ UNCHANGED <<rnCaught, rnExit>>
       ELSE /\ rnPc' = "exited"
            /\ rnCaught' = TRUE
            /\ rnExit' = 1
    /\ UNCHANGED <<rnScript, rnMain, rnChildren, rnSuiteReturn>>
    /\ UNCHANGED nonRunnerVars

\* The test the suite awaits returns; after the last one the suite returns
\* whether every result is true.
\* The results object of a run function is complete: its initializer awaits
\* every child in turn, whatever the earlier ones returned.
SuiteDoneAtFirstFalse(script, children) ==
    \/ Len(children) = Len(ChildTests(script))
    \/ children[Len(children)] = "false"
SuiteDone(script, children) == Len(children) = Len(ChildTests(script))

RnChildReturns(passed) ==
    /\ rnPc = "suite"
    /\ rnChildren' = Append(rnChildren, IF passed THEN "true" ELSE "false")
    /\ IF SuiteDone(rnScript, rnChildren')
       THEN /\ rnPc' = "returned"
            /\ rnSuiteReturn' = IF EveryTrue(rnChildren') THEN "true" ELSE "false"
       ELSE UNCHANGED <<rnPc, rnSuiteReturn>>
    /\ UNCHANGED <<rnScript, rnMain, rnCaught, rnExit>>
    /\ UNCHANGED nonRunnerVars

\* main resumes with the value of the suite and exits.
RnExits ==
    /\ rnPc = "returned"
    /\ rnMain
    /\ rnPc' = "exited"
    /\ rnExit' = RunnerExitCode(rnSuiteReturn)
    /\ UNCHANGED <<rnScript, rnMain, rnChildren, rnSuiteReturn, rnCaught>>
    /\ UNCHANGED nonRunnerVars

(***************************************************************************)
(* Comprehensive runner: runAllTests and main of scripts/run-all-tests.js. *)
(***************************************************************************)
\* The suites in the order in which runAllTests awaits them.
ExecOrderSwapped ==
    <<"distributedCommunication", "monitoring", "replication", "stressTesting",
      "systemRecovery", "deploymentAutomation">>
ExecOrder ==
    <<"distributedCommunication", "replication", "monitoring", "stressTesting",
      "systemRecovery", "deploymentAutomation">>

\* The single-suite script that requires the same test module, and takes
\* the same run function from it, as run-all-tests.js does for the key.
SuiteScript(key) ==
    CASE key = "distributedCommunication" -> "distributed"
      [] key = "replication" -> "replication"
      [] key = "monitoring" -> "monitoring"
      [] key = "stressTesting" -> "stress"
      [] key = "systemRecovery" -> "recovery"
      [] key = "deploymentAutomation" -> "deployment"

\* const { run... } = require('../tests/...'): the name is bound to a
\* function when the required module exports it.  tests/stress-test.js
\* assigns nothing to module.exports, so runAllStressTests is undefined.
IsFunction(key) == RunFunction(SuiteScript(key)) \in Exported(SuiteScript(key))

\* const testSuites = [ { name, key, required }, ... ]
TestSuites ==
    << [key |-> "distributedCommunication", required |-> TRUE],
       [key |-> "replication", required |-> TRUE],
       [key |-> "monitoring", required |-> TRUE],
       [key |-> "stressTesting", required |-> TRUE],
       [key |-> "systemRecovery", required |-> FALSE],
       [key |-> "deploymentAutomation", required |-> FALSE] >>

SuiteKeys == {TestSuites[n].key : n \in DOMAIN TestSuites}

\* testResults[suite.key] used as a condition: an unset key is undefined.
Truthy(v) == v = "true"

\* The counters the forEach over testSuites leaves behind.
CountPassed(results, required) ==
    Cardinality({n \in DOMAIN TestSuites :
                    Truthy(results[TestSuites[n].key]) /\ TestSuites[n].required = required})
CountAll(required) ==
    Cardinality({n \in DOMAIN TestSuites : TestSuites[n].required = required})

\* const allRequiredPassed = requiredPassed === totalRequired
AllRequiredPassed(reqPassed, totReq) == reqPassed = totReq
\* const allTestsPassed = totalPassed === testSuites.length
AllTestsPassed(totPassed) == totPassed = Len(TestSuites)

\* The branch of the final if / else if / else that prints the overall line.
Classify(allTests, allRequired) ==
    IF allTests THEN "all-pass"
    ELSE IF allRequired THEN "meets-minimum"
    ELSE "failed"

\* process.exit(success ? 0 : 1)
ExitCodeInverted(success) == IF success = "true" THEN 1 ELSE 0
ExitCodeFor(success) == IF success = "true" THEN 0 ELSE 1

SuitesIdle ==
    /\ ratPc = "idle"
    /\ ratIdx = 1
    /\ suiteState = [k \in SuiteKeys |-> "notStarted"]
    /\ testResults = [k \in SuiteKeys |-> "unset"]
    /\ startOrder = << >>
    /\ requiredPassed = 0
    /\ totalRequired = 0
    /\ optionalPassed = 0
    /\ totalOptional = 0
    /\ totalPassed = 0
    /\ verdict = "none"
    /\ ratReturn = "none"
    /\ exitCode = -1
    /\ suiteChildren = << >>

\* main() has waited for the system and calls runAllTests.
RatCall ==
    /\ ratPc = "idle"
    /\ ratPc' = "run"
    /\ UNCHANGED <<suiteChildren, ratIdx, suiteState, testResults, startOrder, requiredPassed,
                   totalRequired, optionalPassed, totalOptional, totalPassed,
                   verdict, ratReturn, exitCode>>
    /\ UNCHANGED nonSuiteVars

\* runAllTests calls the next suite's run function and awaits it.
SuiteStart ==
    /\ ratPc = "run"
    /\ suiteState[ExecOrder[ratIdx]] = "notStarted"
    /\ IsFunction(ExecOrder[ratIdx])
    /\ suiteState' = [suiteState EXCEPT ![ExecOrder[ratIdx]] = "running"]
    /\ startOrder' = Append(startOrder, ExecOrder[ratIdx])
    /\ suiteChildren' = << >>
    /\ UNCHANGED <<ratPc, ratIdx, testResults, requiredPassed, totalRequired,
                   optionalPassed, totalOptional, totalPassed, verdict, ratReturn,
                   exitCode>>
    /\ UNCHANGED nonSuiteVars

\* A test of the running suite returns its boolean into the results object
\* of the suite's run function.
SuiteChildReturns(passed) ==
    /\ ratPc = "run"
    /\ suiteState[ExecOrder[ratIdx]] = "running"
    /\ ~SuiteDone(SuiteScript(ExecOrder[ratIdx]), suiteChildren)
    /\ suiteChildren' = Append(suiteChildren, IF passed THEN "true" ELSE "false")
    /\ UNCHANGED <<ratPc, ratIdx, suiteState, testResults, startOrder, requiredPassed,
                   totalRequired, optionalPassed, totalOptional, totalPassed,
                   verdict, ratReturn, exitCode>>
    /\ UNCHANGED nonSuiteVars

\* The awaited suite returns whether every one of its tests returned true,
\* which is stored under its key.
SuiteReturn ==
    /\ ratPc = "run"
    /\ suiteState[ExecOrder[ratIdx]] = "running"
    /\ SuiteDone(SuiteScript(ExecOrder[ratIdx]), suiteChildren)
    /\ suiteState' = [suiteState EXCEPT ![ExecOrder[ratIdx]] = "returned"]
    /\ testResults' = [testResults EXCEPT ![ExecOrder[ratIdx]] =
                          IF EveryTrue(suiteChildren) THEN "true" ELSE "false"]
    /\ IF ratIdx < Len(ExecOrder)
       THEN ratIdx' = ratIdx + 1 /\ UNCHANGED ratPc
       ELSE ratPc' = "summary" /\ UNCHANGED ratIdx
    /\ UNCHANGED <<suiteChildren, startOrder, requiredPassed, totalRequired,
                   optionalPassed, totalOptional, totalPassed, verdict, ratReturn,
                   exitCode>>
    /\ UNCHANGED nonSuiteVars

\* The awaited suite rejects: the one catch around all six suites logs
\* "Critical error during testing" and returns false.
SuiteThrow ==
    /\ ratPc = "run"
    /\ suiteState[ExecOrder[ratIdx]] = "running"
    /\ suiteState' = [suiteState EXCEPT ![ExecOrder[ratIdx]] = "threw"]
    /\ ratReturn' = "false"
    /\ ratPc' = "returned"
    /\ UNCHANGED <<suiteChildren, ratIdx, testResults, startOrder, requiredPassed, totalRequired,
                   optionalPassed, totalOptional, totalPassed, verdict, exitCode>>
    /\ UNCHANGED nonSuiteVars

\* runAllTests calls a name that is not bound to a function: the call
\* throws a TypeError before any suite code runs, and the one catch around
\* all six suites returns false.
SuiteCallThrows ==
    /\ ratPc = "run"
    /\ suiteState[ExecOrder[ratIdx]] = "notStarted"
    /\ ~IsFunction(ExecOrder[ratIdx])
    /\ ratReturn' = "false"
    /\ ratPc' = "returned"
    /\ UNCHANGED <<suiteChildren, ratIdx, suiteState, testResults, startOrder, requiredPassed,
                   totalRequired, optionalPassed, totalOptional, totalPassed,
                   verdict, exitCode>>
    /\ UNCHANGED nonSuiteVars

\* The summary: per-suite lines, counters, overall classification, return.
\* It follows the try block, which no run leaves normally: the fourth call
\* throws, so the summary is no step of NextSuites.
RatSummary ==
    /\ ratPc = "summary"
    /\ requiredPassed' = CountPassed(testResults, TRUE)
    /\ optionalPassed' = CountPassed(testResults, FALSE)
    /\ totalPassed' = CountPassed(testResults, TRUE) + CountPassed(testResults, FALSE)
    /\ totalRequired' = CountAll(TRUE)
    /\ totalOptional' = CountAll(FALSE)
    /\ verdict' = Classify(AllTestsPassed(totalPassed'),
                           AllRequiredPassed(requiredPassed', totalRequired'))
    /\ ratReturn' = IF AllRequiredPassed(requiredPassed', totalRequired')
                    THEN "true" ELSE "false"
    /\ ratPc' = "returned"
    /\ UNCHANGED <<suiteChildren, ratIdx, suiteState, testResults, startOrder, exitCode>>
    /\ UNCHANGED nonSuiteVars

\* main() turns the returned boolean into the process exit code.
MainExit ==
    /\ ratPc = "returned"
    /\ exitCode' = ExitCodeFor(ratReturn)
    /\ ratPc' = "exited"
    /\ UNCHANGED <<suiteChildren, ratIdx, suiteState, testResults, startOrder, requiredPassed,
                   totalRequired, optionalPassed, totalOptional, totalPassed,
                   verdict, ratReturn>>
    /\ UNCHANGED nonSuiteVars

(***************************************************************************)
(* Replication test of the replication suite: testReplication.             *)
(***************************************************************************)
\* CASSANDRA_CONFIGS.length and minExpectedReplicas.
CassandraNodes == 3
MinExpectedReplicas == 2

\* What the SELECT on one node can give: a row, no row, or a rejection.
ReadOutcomes == {"found", "missing", "error"}

\* replicationCount after the given reads: only a resolved SELECT with a
\* row counts.
ReplicationCount(reads) ==
    Cardinality({n \in DOMAIN reads : reads[n] = "found"})

\* const isReplicationWorking = replicationCount >= minExpectedReplicas
IsReplicationWorkingOnAll(count) == count >= CassandraNodes
IsReplicationWorking(count) == count >= MinExpectedReplicas

ReplIdle ==
    /\ rpPc = "idle"
    /\ rpWritten = FALSE
    /\ rpReads = << >>
    /\ rpCount = 0
    /\ rpShutdowns = << >>
    /\ rpPending = "none"
    /\ rpReturn = "none"

\* testReplication is called: it creates one client per node and sends
\* the INSERT through the first one.
RpCall ==
    /\ rpPc = "idle"
    /\ rpPc' = "write"
    /\ UNCHANGED <<rpWritten, rpReads, rpCount, rpShutdowns, rpPending, rpReturn>>
    /\ UNCHANGED nonReplVars

\* The INSERT settles.  Resolved: the test sleeps 3 s.  Rejected: the
\* catch block returns false and the finally block starts.
RpWriteSettles(ok) ==
    /\ rpPc = "write"
    /\ rpWritten' = ok
    /\ IF ok
       THEN /\ rpPc' = "wait"
            /\ UNCHANGED rpPending
       ELSE /\ rpPc' = "shutdown"
            /\ rpPending' = "false"
    /\ UNCHANGED <<rpReads, rpCount, rpShutdowns, rpReturn>>
    /\ UNCHANGED nonReplVars

\* The 3 s timer fires: the SELECT on the first node is sent.
RpWaited ==
    /\ rpPc = "wait"
    /\ rpPc' = "read"
    /\ UNCHANGED <<rpWritten, rpReads, rpCount, rpShutdowns, rpPending, rpReturn>>
    /\ UNCHANGED nonReplVars

\* The SELECT on the next node settles; a rejection is caught inside the
\* loop.  After the last node the try block returns isReplicationWorking
\* and the finally block starts.
RpReadSettles(outcome) ==
    /\ rpPc = "read"
    /\ rpReads' = Append(rpReads, outcome)
    /\ rpCount' = ReplicationCount(rpReads')
    /\ IF Len(rpReads') = CassandraNodes
       THEN /\ rpPc' = "shutdown"
            /\ rpPending' = IF IsReplicationWorking(rpCount') THEN "true" ELSE "false"
       ELSE UNCHANGED <<rpPc, rpPending>>
    /\ UNCHANGED <<rpWritten, rpShutdowns, rpReturn>>
    /\ UNCHANGED nonReplVars

\* finally: the shutdown of the next client settles; a rejection is
\* ignored.  After the last client the pending value is returned.
RpShutdownSettles(ok) ==
    /\ rpPc = "shutdown"
    /\ rpShutdowns' = Append(rpShutdowns, IF ok THEN "ok" ELSE "err")
    /\ IF Len(rpShutdowns') = CassandraNodes
       THEN /\ rpPc' = "done"
            /\ rpReturn' = rpPending
       ELSE UNCHANGED <<rpPc, rpReturn>>
    /\ UNCHANGED <<rpWritten, rpReads, rpCount, rpPending>>
    /\ UNCHANGED nonReplVars

(***************************************************************************)
(* Startup of the user service and of the order service.                   *)
(***************************************************************************)
Services == {"user", "order"}

\* Status of the answer to GET /health: 200 when checkCassandraHealth
\* returned true, 503 otherwise.
HealthStatus(cassandraUp) == IF cassandraUp THEN 200 ELSE 503

\* The states in which the HTTP server is bound to its port and dispatches
\* requests to the handlers: from app.listen on, until the process exits.
Listening(pc) == pc \in {"initializing", "ready"}

ServiceIdle ==
    /\ svPc = "stopped"
    /\ svService = "none"
    /\ svCassandra = FALSE
    /\ svAnswers = << >>
    /\ svInflight = << >>
    /\ svClosing = {}
    /\ svExit = -1

\* The signals for which the service registers a handler with process.on.
Signals == {"SIGINT", "SIGTERM"}

\* The code a signal handler passes to process.exit after closeConnection,
\* which catches the rejection of client.shutdown() and so always resolves.
ShutdownExitCode(ok) == 0

\* The sequence without its i-th element.
RemoveAt(seq, i) == SubSeq(seq, 1, i - 1) \o SubSeq(seq, i + 1, Len(seq))

\* The process starts: app.listen binds the port and its callback calls
\* initializeDatabase and awaits it.
SvListen(service) ==
    /\ svPc = "stopped"
    /\ svPc' = "initializing"
    /\ svService' = service
    /\ UNCHANGED <<svCassandra, svAnswers, svInflight, svClosing, svExit>>
    /\ UNCHANGED nonServiceVars

\* The cluster becomes reachable or unreachable.
SvCassandraChanges ==
    /\ svCassandra' = ~svCassandra
    /\ UNCHANGED <<svPc, svService, svAnswers, svInflight, svClosing, svExit>>
    /\ UNCHANGED nonServiceVars

\* initializeDatabase settles: resolved, which takes a reachable cluster,
\* the callback logs the startup; rejected, the callback's catch exits the
\* process with code 1.
SvInitSettles(ok) ==
    /\ svPc = "initializing"
    /\ ok => svCassandra
    /\ svPc' = IF ok THEN "ready" ELSE "exited"
    /\ svExit' = IF ok THEN svExit ELSE 1
    /\ UNCHANGED <<svService, svCassandra, svAnswers, svInflight, svClosing>>
    /\ UNCHANGED nonServiceVars

\* A GET /health request arrives at the listening server: the handler calls
\* checkCassandraHealth and awaits it.
SvHealth ==
    /\ Listening(svPc)
    /\ Len(svAnswers) + Len(svInflight) < MaxAnswers
    /\ svInflight' = Append(svInflight, svPc)
    /\ UNCHANGED <<svPc, svService, svCassandra, svAnswers, svClosing, svExit>>
    /\ UNCHANGED nonServiceVars

\* The health check of the i-th request in flight settles and the handler
\* answers: 200 when the query resolved, 503 when it was rejected.
SvHealthAnswers(i) ==
    /\ Listening(svPc)
    /\ i \in DOMAIN svInflight
    /\ svAnswers' = Append(svAnswers, [status |-> HealthStatus(svCassandra),
                                        phase |-> svPc,
                                        arrived |-> svInflight[i]])
    /\ svInflight' = RemoveAt(svInflight, i)
    /\ UNCHANGED <<svPc, svService, svCassandra, svClosing, svExit>>
    /\ UNCHANGED nonServiceVars

\* SIGINT or SIGTERM is delivered to the running process: its handler calls
\* closeConnection and awaits it.
SvSignal(sig) ==
    /\ Listening(svPc)
    /\ svClosing' = svClosing \cup {sig}
    /\ UNCHANGED <<svPc, svService, svCassandra, svAnswers, svInflight, svExit>>
    /\ UNCHANGED nonServiceVars

\* client.shutdown() of a signal handler settles; closeConnection returns
\* either way and the handler exits the process.
SvShutdownSettles(sig, ok) ==
    /\ Listening(svPc)
    /\ sig \in svClosing
    /\ svPc' = "exited"
    /\ svExit' = ShutdownExitCode(ok)
    /\ UNCHANGED <<svService, svCassandra, svAnswers, svInflight, svClosing>>
    /\ UNCHANGED nonServiceVars

(***************************************************************************)
(* Database module: waitForCassandraReady() and initializeDatabase().      *)
(***************************************************************************)
\* Default maxRetries of waitForCassandraReady.
WaitDefaultRetries == 10

\* The schema statements of one attempt of initializeDatabase, in the order
\* of its try block.
SchemaSteps == <<"createKeyspace", "useKeyspace", "createUsersTable", "createOrdersTable">>

\* Values of maxRetries the callers pass.
DbRetryInputs == 0..MaxDbRetries

\* The attempt of initializeDatabase that is running, counted from 1.
DbAttempt == dbInitMax - dbInitRetries + 1

\* The statements the running attempt has executed so far.
DbAttemptStmts(a) == SelectSeq(dbStmts, LAMBDA e : e.attempt = a)

\* Condition on which waitForCassandraReady stops after a failed check.
WaitGivesUpEarly(retries) == retries <= 1
WaitGivesUp(retries) == retries = 0

\* What waitForCassandraReady does once a health check reported success.
OnHealthy == "return"

\* What initializeDatabase does when the cluster is not ready.
OnClusterNotReady == "throw"

\* What the catch block of initializeDatabase does with the error once the
\* retries are used up.
OnRetriesExhaustedReturnFalse == "false"
OnRetriesExhausted == "threw"

DbIdle ==
    /\ dbPc = "idle"
    /\ dbFn = "none"
    /\ dbWaitMax = 0
    /\ dbWaitRetries = 0
    /\ dbChecks = 0
    /\ dbCheckLog = << >>
    /\ dbWaits = 0
    /\ dbWaitResult = "none"
    /\ dbInitMax = 0
    /\ dbInitRetries = 0
    /\ dbStmts = << >>
    /\ dbResult = "none"
    /\ dbThrown = << >>

\* waitForCassandraReady(maxRetries, retryInterval) called on its own.
DbCallWait(maxRetries) ==
    /\ dbPc = "idle"
    /\ dbFn' = "waitForCassandraReady"
    /\ dbWaitMax' = maxRetries
    /\ dbWaitRetries' = maxRetries
    /\ dbPc' = IF maxRetries > 0 THEN "check" ELSE "done"
    /\ dbWaitResult' = IF maxRetries > 0 THEN "none" ELSE "false"
    /\ dbResult' = IF maxRetries > 0 THEN "none" ELSE "false"
    /\ UNCHANGED <<dbChecks, dbCheckLog, dbWaits, dbInitMax, dbInitRetries, dbStmts, dbThrown>>
    /\ UNCHANGED nonDbVars

\* initializeDatabase(maxRetries): begins with waitForCassandraReady() on its
\* default arguments.
DbCallInit(maxRetries) ==
    /\ dbPc = "idle"
    /\ dbFn' = "initializeDatabase"
    /\ dbInitMax' = maxRetries
    /\ dbInitRetries' = maxRetries
    /\ dbWaitMax' = WaitDefaultRetries
    /\ dbWaitRetries' = WaitDefaultRetries
    /\ dbPc' = "check"
    /\ UNCHANGED <<dbChecks, dbCheckLog, dbWaits, dbWaitResult, dbStmts, dbResult, dbThrown>>
    /\ UNCHANGED nonDbVars

\* waitForCassandraReady has returned ready to its caller: initializeDatabase
\* throws on false, and on true enters its retry loop.
DbAfterWait(ready) ==
    IF dbFn = "waitForCassandraReady"
    THEN /\ dbPc' = "done"
         /\ dbResult' = IF ready THEN "true" ELSE "false"
         /\ dbThrown' = dbThrown
    ELSE IF ~ready /\ OnClusterNotReady = "throw"
    THEN /\ dbPc' = "done"
         /\ dbResult' = "threw"
         /\ dbThrown' = <<"clusterNotReady">>
    ELSE IF dbInitRetries > 0
    THEN /\ dbPc' = "schema"
         /\ dbResult' = dbResult
         /\ dbThrown' = dbThrown
    ELSE /\ dbPc' = "done"
         /\ dbResult' = "false"
         /\ dbThrown' = dbThrown

\* One checkCassandraHealth() call settles; it never throws.
DbCheckSettles(healthy) ==
    /\ dbPc = "check"
    /\ dbChecks' = dbChecks + 1
    /\ dbCheckLog' = Append(dbCheckLog, healthy)
    /\ IF healthy /\ OnHealthy = "return"
       THEN /\ dbWaitResult' = "true"
            /\ DbAfterWait(TRUE)
            /\ UNCHANGED <<dbWaitRetries, dbWaits>>
       ELSE /\ dbWaitRetries' = dbWaitRetries - 1
            /\ IF WaitGivesUp(dbWaitRetries - 1)
               THEN /\ dbWaitResult' = "false"
                    /\ DbAfterWait(FALSE)
                    /\ dbWaits' = dbWaits
               ELSE /\ dbPc' = "delay"
                    /\ dbWaits' = dbWaits + 1
                    /\ UNCHANGED <<dbWaitResult, dbResult, dbThrown>>
    /\ UNCHANGED <<dbFn, dbWaitMax, dbInitMax, dbInitRetries, dbStmts>>
    /\ UNCHANGED nonDbVars

\* delay(retryInterval) of waitForCassandraReady has elapsed.
DbDelayDone ==
    /\ dbPc = "delay"
    /\ dbPc' = "check"
    /\ UNCHANGED <<dbFn, dbWaitMax, dbWaitRetries, dbChecks, dbCheckLog, dbWaits, dbWaitResult, dbInitMax,
                   dbInitRetries, dbStmts, dbResult, dbThrown>>
    /\ UNCHANGED nonDbVars

\* The next schema statement of the running attempt settles.
DbStmtSettles(ok) ==
    /\ dbPc = "schema"
    /\ LET done == Len(DbAttemptStmts(DbAttempt))
           stmt == SchemaSteps[done + 1]
       IN  /\ dbStmts' = Append(dbStmts, [attempt |-> DbAttempt, stmt |-> stmt, ok |-> ok])
           /\ IF ok
              THEN /\ dbPc' = IF done + 1 = Len(SchemaSteps) THEN "done" ELSE "schema"
                   /\ dbResult' = IF done + 1 = Len(SchemaSteps) THEN "true" ELSE dbResult
                   /\ UNCHANGED <<dbInitRetries, dbThrown>>
              ELSE /\ dbInitRetries' = dbInitRetries - 1
                   /\ IF dbInitRetries - 1 = 0
                      THEN /\ dbPc' = "done"
                           /\ dbResult' = OnRetriesExhausted
                           /\ dbThrown' = IF OnRetriesExhausted = "threw"
                                          THEN <<DbAttempt, stmt>> ELSE dbThrown
                      ELSE /\ dbPc' = "retryDelay"
                           /\ UNCHANGED <<dbResult, dbThrown>>
    /\ UNCHANGED <<dbFn, dbWaitMax, dbWaitRetries, dbChecks, dbCheckLog, dbWaits, dbWaitResult, dbInitMax>>
    /\ UNCHANGED nonDbVars

\* delay(5000) between two attempts of initializeDatabase has elapsed.
DbRetryDelayDone ==
    /\ dbPc = "retryDelay"
    /\ dbPc' = "schema"
    /\ UNCHANGED <<dbFn, dbWaitMax, dbWaitRetries, dbChecks, dbCheckLog, dbWaits, dbWaitResult, dbInitMax,
                   dbInitRetries, dbStmts, dbResult, dbThrown>>
    /\ UNCHANGED nonDbVars

(***************************************************************************)
(* Handlers of the user and the order service that write rows: POST, PUT   *)
(* and DELETE of /users and /orders.  A handler runs without interruption  *)
(* up to its await of executeQuery; handlers of different requests         *)
(* interleave at that await.                                               *)
(***************************************************************************)
ResourceKinds == {"user", "order"}

\* Number.prototype.toString of a non-negative integer: its decimal digits,
\* most significant first.
RECURSIVE NumberToString(_)
NumberToString(n) == IF n < 10 THEN <<n>> ELSE Append(NumberToString(n \div 10), n % 10)

\* const id = Date.now().toString()
NewId(now, req) == NumberToString(now)

\* const validStatuses = [...] of PUT /orders/:id.
ValidStatuses == {"pending", "processing", "completed", "cancelled"}

\* const status = 'pending' of POST /orders.
InitialStatus == "pending"

\* The status field of the body of a PUT: one of the valid statuses, a
\* string that is none of them, the empty string, or "absent" for a body
\* without the field.  The handler tests the field with !status and
\* status && ..., which take the empty string as they take an absent field.
PutStatusInputs == {"completed", "shipped", "", "absent"}

\* The ids the clock can yield.
ClockIds == {NumberToString(t) : t \in 0..MaxClock}

\* The ids the PUT requests name: those drawn in the first two milliseconds.
PutIds == {NumberToString(t) : t \in {0, 1}}

\* Response of PUT /orders/:id before any query is made: 400 without any
\* field to update, 400 for a status that is not empty and not valid; 0
\* when the handler goes on to its UPDATE.
PutRejectionLenient(status, others) ==
    IF status \in {"", "absent"} /\ ~others THEN 400 ELSE 0
PutRejection(status, others) ==
    IF status \in {"", "absent"} /\ ~others THEN 400
    ELSE IF status \notin {"", "absent"} /\ status \notin ValidStatuses THEN 400
    ELSE 0

\* INSERT INTO <table> ... VALUES (id, ...): Cassandra writes the row with
\* that primary key, replacing the columns of a row that exists.
Insert(table, row) == {r \in table : r.id # row.id} \cup {row}

\* UPDATE orders SET status = ? ... WHERE id = ?: sets the named columns of
\* the row with that primary key (status is named only when the field is
\* not empty); Cassandra creates the row when there is none, with the
\* columns that were not named left null.
UpdateStatus(table, id, status) ==
    IF \E r \in table : r.id = id
    THEN {IF r.id = id /\ status \notin {"", "absent"}
          THEN [r EXCEPT !.status = status] ELSE r : r \in table}
    ELSE table \cup {[id |-> id, req |-> 0,
                      status |-> IF status \notin {"", "absent"}
                                 THEN status ELSE "null"]}

\* UPDATE users SET name = ?, email = ?, updated_at = ? WHERE id = ?: as
\* for orders, the row is created when there is none.
UpdateUser(table, id) ==
    IF \E r \in table : r.id = id THEN table ELSE table \cup {[id |-> id, req |-> 0]}

\* DELETE FROM <table> WHERE id = ?
DeleteRow(table, id) == {r \in table : r.id # id}

StoreIdle ==
    /\ stNow = 0
    /\ stCalls = 0
    /\ stPending = {}
    /\ stUsers = {}
    /\ stOrders = {}
    /\ stCreated = {}
    /\ stOps = 0
    /\ stWrites = {}
    /\ stAnswered = << >>

\* A millisecond passes.
StTick ==
    /\ stNow < MaxClock
    /\ stNow' = stNow + 1
    /\ UNCHANGED <<stCalls, stPending, stUsers, stOrders, stCreated, stOps,
                   stWrites, stAnswered>>
    /\ UNCHANGED nonStoreVars

\* POST /users or POST /orders arrives: a body that fails validation is
\* answered 400; otherwise the handler draws the id and awaits its INSERT.
StPost(kind, valid) ==
    /\ stCalls + stOps < MaxWrites
    /\ stCalls' = stCalls + 1
    /\ IF valid
       THEN stPending' = stPending \cup
                  {[req |-> stCalls + 1, kind |-> kind, id |-> NewId(stNow, stCalls + 1)]}
       ELSE UNCHANGED stPending
    /\ UNCHANGED <<stNow, stUsers, stOrders, stCreated, stOps, stWrites,
                   stAnswered>>
    /\ UNCHANGED nonStoreVars

\* The INSERT of a pending create settles: 201 with the id, or 500 from the
\* catch block.
StInsertSettles(p, ok) ==
    /\ p \in stPending
    /\ stPending' = stPending \ {p}
    /\ IF ok
       THEN /\ stUsers' = IF p.kind = "user"
                          THEN Insert(stUsers, [id |-> p.id, req |-> p.req])
                          ELSE stUsers
            /\ stOrders' = IF p.kind = "order"
                           THEN Insert(stOrders, [id |-> p.id, req |-> p.req,
                                                  status |-> InitialStatus])
                           ELSE stOrders
            /\ stCreated' = stCreated \cup {p}
       ELSE UNCHANGED <<stUsers, stOrders, stCreated>>
    /\ UNCHANGED <<stNow, stCalls, stOps, stWrites, stAnswered>>
    /\ UNCHANGED nonStoreVars

\* The request a PUT or DELETE handler works on.
Write(op, verb, kind, id, status) ==
    [op |-> op, verb |-> verb, kind |-> kind, id |-> id, status |-> status]

\* The handler of write w sends the response with the given status code.
Answer(w, code) ==
    [verb |-> w.verb, kind |-> w.kind, id |-> w.id, status |-> w.status,
     code |-> code]

\* PUT /orders/:id arrives with the given status field; others: the body
\* names items or totalAmount.  A body that fails validation is answered
\* 400; otherwise the handler sends its UPDATE and awaits it.
StPut(id, status, others) ==
    /\ stCalls + stOps < MaxWrites
    /\ stOps' = stOps + 1
    /\ LET w == Write(stOps + 1, "put", "order", id, status)
       IN  IF PutRejection(status, others) # 0
           THEN /\ stAnswered' = Answer(w, PutRejection(status, others))
                /\ UNCHANGED stWrites
           ELSE /\ stWrites' = stWrites \cup {w}
                /\ UNCHANGED stAnswered
    /\ UNCHANGED <<stNow, stCalls, stPending, stUsers, stOrders, stCreated>>
    /\ UNCHANGED nonStoreVars

\* PUT /users/:id arrives; valid: the body has a name and an email of the
\* required form.  Otherwise as for orders.
StPutUser(id, valid) ==
    /\ stCalls + stOps < MaxWrites
    /\ stOps' = stOps + 1
    /\ LET w == Write(stOps + 1, "put", "user", id, "")
       IN  IF ~valid
           THEN /\ stAnswered' = Answer(w, 400)
                /\ UNCHANGED stWrites
           ELSE /\ stWrites' = stWrites \cup {w}
                /\ UNCHANGED stAnswered
    /\ UNCHANGED <<stNow, stCalls, stPending, stUsers, stOrders, stCreated>>
    /\ UNCHANGED nonStoreVars

\* DELETE /users/:id or DELETE /orders/:id arrives: the handler sends its
\* DELETE and awaits it.
StDelete(kind, id) ==
    /\ stCalls + stOps < MaxWrites
    /\ stOps' = stOps + 1
    /\ stWrites' = stWrites \cup {Write(stOps + 1, "delete", kind, id, "")}
    /\ UNCHANGED <<stNow, stCalls, stPending, stUsers, stOrders, stCreated,
                   stAnswered>>
    /\ UNCHANGED nonStoreVars

\* The query of a pending PUT or DELETE settles: resolved, it has changed
\* the table and the handler answers 200; rejected, the catch block answers
\* 500.
StWriteSettles(w, ok) ==
    /\ w \in stWrites
    /\ stWrites' = stWrites \ {w}
    /\ stAnswered' = Answer(w, IF ok THEN 200 ELSE 500)
    /\ stOrders' = IF ok /\ w.kind = "order"
                   THEN IF w.verb = "put"
                        THEN UpdateStatus(stOrders, w.id, w.status)
                        ELSE DeleteRow(stOrders, w.id)
                   ELSE stOrders
    /\ stUsers' = IF ok /\ w.kind = "user"
                  THEN IF w.verb = "put"
                       THEN UpdateUser(stUsers, w.id)
                       ELSE DeleteRow(stUsers, w.id)
                  ELSE stUsers
    /\ UNCHANGED <<stNow, stCalls, stPending, stCreated, stOps>>
    /\ UNCHANGED nonStoreVars

(***************************************************************************)
(* Proxy handlers of the API gateway: GET and POST /api/users and          *)
(* /api/orders, GET /api/users/:id and /api/orders/:id.                    *)
(***************************************************************************)
ProxyRoutes ==
    {"GET /api/orders", "GET /api/orders/:id", "POST /api/orders",
     "GET /api/users", "GET /api/users/:id", "POST /api/users"}

IsPost(route) == route \in {"POST /api/orders", "POST /api/users"}

\* How the request forwarded with axios settles: the upstream service
\* answered with a status and a body (a JSON object, "b1", or the JSON value
\* null), or no response arrived (connection error, or the 10 s timeout).
UpstreamStatuses == {200, 201, 400, 404, 500, 503}
UpstreamBodies == {"b1", "null"}
NoUpstream == [kind |-> "none", status |-> 0, body |-> "none"]
UpstreamOutcomes ==
    [kind : {"response"}, status : UpstreamStatuses, body : UpstreamBodies]
       \cup [kind : {"network", "timeout"}, status : {0}, body : {"none"}]

\* axios resolves on a 2xx status and rejects, with error.response set, on
\* any other.
Resolves(outcome) ==
    outcome.kind = "response" /\ outcome.status >= 200 /\ outcome.status < 300

\* The body of the 400 the POST handlers send for a request that lacks a
\* required field, and of the 503 of the catch block.
MissingFields == [status |-> 400, body |-> "missingFields"]
Unavailable == [status |-> 503, body |-> "unavailable"]

\* The two list routes log response.data.orders / response.data.users
\* inside the try before they answer: reading a property of null throws.
LogThrows(route, outcome) ==
    route \in {"GET /api/orders", "GET /api/users"} /\ outcome.body = "null"

\* The responses a handler sends once the forwarded request has settled:
\* the upstream body with 200 (201 from a POST handler) when axios resolved
\* and the log line did not throw; in the catch block the upstream status
\* and body when error.response is set, and 503 otherwise (no upstream
\* response, or the TypeError of the log line).
ProxyResponsesRethrowing(route, outcome) ==
    IF Resolves(outcome)
    THEN IF LogThrows(route, outcome)
         THEN << >>
         ELSE << [status |-> IF IsPost(route) THEN 201 ELSE 200, body |-> outcome.body] >>
    ELSE IF outcome.kind = "response"
    THEN << [status |-> outcome.status, body |-> outcome.body] >>
    ELSE << >>
ProxyResponses(route, outcome) ==
    IF Resolves(outcome)
    THEN IF LogThrows(route, outcome)
         THEN << Unavailable >>
         ELSE << [status |-> IF IsPost(route) THEN 201 ELSE 200, body |-> outcome.body] >>
    ELSE IF outcome.kind = "response"
    THEN << [status |-> outcome.status, body |-> outcome.body] >>
    ELSE << Unavailable >>

GatewayIdle ==
    /\ gwPc = "idle"
    /\ gwRoute = "none"
    /\ gwCalls = 0
    /\ gwUpstream = NoUpstream
    /\ gwSent = << >>

\* A request arrives at a proxy route.  complete: the body of a POST has the
\* required fields (a GET has none to check).  An incomplete POST is answered
\* 400 without being forwarded; any other request is forwarded and awaited.
GwRequest(route, complete) ==
    /\ gwPc \in {"idle", "done"}
    /\ gwCalls < MaxCalls
    /\ complete \/ IsPost(route)
    /\ gwCalls' = gwCalls + 1
    /\ gwRoute' = route
    /\ gwUpstream' = NoUpstream
    /\ IF complete
       THEN /\ gwPc' = "forwarding"
            /\ gwSent' = << >>
       ELSE /\ gwPc' = "done"
            /\ gwSent' = << MissingFields >>
    /\ UNCHANGED nonGatewayVars

\* The forwarded request settles and the handler answers.
GwUpstreamSettles(outcome) ==
    /\ gwPc = "forwarding"
    /\ gwPc' = "done"
    /\ gwUpstream' = outcome
    /\ gwSent' = gwSent \o ProxyResponses(gwRoute, outcome)
    /\ UNCHANGED <<gwRoute, gwCalls>>
    /\ UNCHANGED nonGatewayVars

(***************************************************************************)
(* Specifications.                                                         *)
(***************************************************************************)
vars ==
    <<pollerVars, commandVars, suiteVars, recoveryVars, loadVars, scalingVars,
      runnerVars, replVars, serviceVars, dbVars, storeVars, gatewayVars>>

AllIdle ==
    /\ PollerIdle /\ CommandIdle /\ SuitesIdle /\ RecoveryIdle /\ LoadIdle
    /\ ScalingIdle /\ RunnerIdle /\ ReplIdle /\ ServiceIdle /\ DbIdle
    /\ StoreIdle /\ GatewayIdle

EndpointScripts == [1..MaxAttempts -> ProbeOutcomes]

NextPoller ==
    \/ \E max \in 0..MaxAttempts, e \in EndpointScripts : WfsCall(max, e)
    \/ WfsLoop
    \/ WfsProbeResolve
    \/ WfsProbeReject
    \/ WfsWake
    \/ CancelRequested

InitPoller == AllIdle
SpecPoller == InitPoller /\ [][NextPoller]_vars

NextCommand ==
    \/ \E fn \in Runners, opt \in OptTimeouts : CmdCall(fn, opt)
    \/ \E dur \in Durations, exit \in ExitCodes : CmdProcEnds(dur, exit)

InitCommand == AllIdle
SpecCommand == InitCommand /\ [][NextCommand]_vars

NextSuites ==
    \/ RatCall
    \/ SuiteStart
    \/ \E passed \in BOOLEAN : SuiteChildReturns(passed)
    \/ SuiteReturn
    \/ SuiteThrow
    \/ SuiteCallThrows
    \/ MainExit

InitSuites == AllIdle
SpecSuites == InitSuites /\ [][NextSuites]_vars

NextRecovery ==
    \/ RsCall
    \/ \E up \in SUBSET Components : ScenarioStart(up)
    \/ \E obs \in {"ok", "err"}, list \in SUBSET [id : {"u1", "u2", "o1"}, payload : Payloads],
          envelope \in Envelopes \cup {"none"} :
          ScenarioStep(obs, list, envelope)
    \/ RsReturn

InitRecovery == AllIdle
SpecRecovery == InitRecovery /\ [][NextRecovery]_vars

NextLoad ==
    \/ \E kind \in LoadKinds, c \in 1..MaxUsers, r \in 1..MaxRequests :
          LgCall(kind, c, r)
    \/ \E t \in UNION {ClockPoints(kind, c) : kind \in LoadKinds, c \in 1..MaxUsers} :
          LgAdvance(t)
    \/ \E i \in UserIds(MaxUsers) : LgUserStart(i)
    \/ \E i \in UserIds(MaxUsers), outcome \in RequestOutcomes :
          LgRequestSettles(i, outcome)
    \/ \E i \in UserIds(MaxUsers) : LgThinkDone(i)
    \/ LgMonitorTick
    \/ \E at \in TickTimes, ok \in BOOLEAN : LgMetricsSettles(at, ok)
    \/ LgJoin

InitLoad == AllIdle
SpecLoad == InitLoad /\ [][NextLoad]_vars

\* The scheduling of a load run: the clock advances, every timer that is
\* armed fires, every request sent with REQUEST_TIMEOUT settles and a
\* resolved Promise.all is resumed; the monitoring interval fires while it
\* is not cleared and its GET /metrics, sent with a timeout, settles.
\* Whether that request succeeds is up to the system under test, and so is
\* whether a further run is called.
FairLoad ==
    /\ WF_vars(\E t \in UNION {ClockPoints(kind, c) :
                              kind \in LoadKinds, c \in 1..MaxUsers} : LgAdvance(t))
    /\ WF_vars(\E i \in UserIds(MaxUsers) : LgUserStart(i))
    /\ WF_vars(\E i \in UserIds(MaxUsers), outcome \in RequestOutcomes :
                  LgRequestSettles(i, outcome))
    /\ WF_vars(\E i \in UserIds(MaxUsers) : LgThinkDone(i))
    /\ WF_vars(LgMonitorTick)
    /\ WF_vars(\E at \in TickTimes, ok \in BOOLEAN : LgMetricsSettles(at, ok))
    /\ WF_vars(LgJoin)
SpecLoadFair == InitLoad /\ [][NextLoad]_vars /\ FairLoad

\* The accumulator handed to calculateResults when every user has finished:
\* lgC users with one request each, the first succ of them served, the
\* others rejected; a run whose clock has not moved has at most one user.
NextSummary == LgJoin

InitSummary ==
    /\ PollerIdle /\ CommandIdle /\ SuitesIdle /\ RecoveryIdle
    /\ ScalingIdle /\ RunnerIdle /\ ReplIdle /\ ServiceIdle /\ DbIdle
    /\ StoreIdle /\ GatewayIdle
    /\ lgPc = "running"
    /\ lgKind \in {"user", "order", "mixed"}
    /\ lgC \in 0..MaxTotal
    /\ lgR = 1
    /\ lgNow \in (IF lgC <= 1 THEN {0, RampUpTime + 120} ELSE {RampUpTime + 120})
    /\ lgUserPc = [i \in UserIds(lgC) |-> "done"]
    /\ lgReq = [i \in UserIds(lgC) |-> 1]
    /\ lgReqStart = [i \in UserIds(lgC) |-> IF lgNow = 0 THEN 0 ELSE RampUpTime]
    /\ lgFirstIssue = lgReqStart
    /\ lgInflight = {}
    /\ \E succ \in 0..lgC, e \in {"timeout", "httpErr"} :
          \E a \in (IF lgNow = 0 THEN {0} ELSE {0, 120}),
             b \in (IF lgNow = 0 THEN {0} ELSE {0, 120}) :
             /\ lgSettled = {[user |-> i, req |-> 1,
                              outcome |-> IF i < succ THEN "ok" ELSE e] :
                                 i \in UserIds(lgC)}
             /\ testMetrics =
                   [totalRequests |-> lgC,
                    successfulRequests |-> succ,
                    failedRequests |-> lgC - succ,
                    responseTimes |-> [n \in 1..succ |-> IF n = 1 THEN a ELSE b],
                    errors |-> [n \in 1..(lgC - succ) |-> ErrorMessage(e)],
                    startTime |-> 0,
                    endTime |-> -1]
    /\ lgSummary = << >>
    /\ lgResult = "none"
    /\ lgSnapshots = 0
    /\ lgMonResolved = FALSE
    /\ lgTicks = {}
    /\ lgCarried = [ZeroMetrics EXCEPT !.startTime = 0]
    /\ lgLastSample \in (IF lgKind = "mixed" /\ lgC > 0 THEN Samples ELSE {-1})
    /\ lgLastOp \in (IF lgC = 0 THEN {"none"}
                     ELSE {Operation(lgKind, lgLastSample, s2) : s2 \in ReadSamples})
SpecSummary == InitSummary /\ [][NextSummary]_vars

NextScaling ==
    \/ SaCall
    \/ \E dur \in Durations, exit \in ExitCodes : SaCommand(dur, exit)

InitScaling == AllIdle
SpecScaling == InitScaling /\ [][NextScaling]_vars

NextRunner ==
    \/ \E script \in RunnerScripts : RnMain(script)
    \/ \E script \in RunnerScripts : RnRunSuite(script)
    \/ RnWaited
    \/ RnCallSuite
    \/ \E passed \in BOOLEAN : RnChildReturns(passed)
    \/ RnExits

InitRunner == AllIdle
SpecRunner == InitRunner /\ [][NextRunner]_vars

NextRepl ==
    \/ RpCall
    \/ \E ok \in BOOLEAN : RpWriteSettles(ok)
    \/ RpWaited
    \/ \E outcome \in ReadOutcomes : RpReadSettles(outcome)
    \/ \E ok \in BOOLEAN : RpShutdownSettles(ok)

InitRepl == AllIdle
SpecRepl == InitRepl /\ [][NextRepl]_vars

NextService ==
    \/ \E service \in Services : SvListen(service)
    \/ SvCassandraChanges
    \/ \E ok \in BOOLEAN : SvInitSettles(ok)
    \/ SvHealth
    \/ \E i \in 1..MaxAnswers : SvHealthAnswers(i)
    \/ \E sig \in Signals : SvSignal(sig)
    \/ \E sig \in Signals, ok \in BOOLEAN : SvShutdownSettles(sig, ok)

InitService == AllIdle
SpecService == InitService /\ [][NextService]_vars

NextDb ==
    \/ \E maxRetries \in DbRetryInputs : DbCallWait(maxRetries)
    \/ \E maxRetries \in DbRetryInputs : DbCallInit(maxRetries)
    \/ \E healthy \in BOOLEAN : DbCheckSettles(healthy)
    \/ DbDelayDone
    \/ \E ok \in BOOLEAN : DbStmtSettles(ok)
    \/ DbRetryDelayDone

InitDb == AllIdle

SpecDb == InitDb /\ [][NextDb]_vars

PendingInputs ==
    [req : 1..MaxWrites, kind : ResourceKinds, id : ClockIds]

\* The PUT and DELETE requests that can await their query.
WriteInputs ==
    [op : 1..MaxWrites, verb : {"put", "delete"}, kind : ResourceKinds, id : PutIds,
     status : PutStatusInputs]

NextIds ==
    \/ StTick
    \/ \E kind \in ResourceKinds, valid \in BOOLEAN : StPost(kind, valid)
    \/ \E p \in PendingInputs, ok \in BOOLEAN : StInsertSettles(p, ok)
    \/ \E id \in PutIds, valid \in BOOLEAN : StPutUser(id, valid)
    \/ \E kind \in ResourceKinds, id \in PutIds : StDelete(kind, id)
    \/ \E w \in WriteInputs, ok \in BOOLEAN : StWriteSettles(w, ok)

InitIds == AllIdle

SpecIds == InitIds /\ [][NextIds]_vars

NextOrders ==
    \/ StTick
    \/ \E valid \in BOOLEAN : StPost("order", valid)
    \/ \E p \in PendingInputs, ok \in BOOLEAN : StInsertSettles(p, ok)
    \/ \E id \in PutIds, status \in PutStatusInputs, others \in BOOLEAN :
          StPut(id, status, others)
    \/ \E id \in PutIds : StDelete("order", id)
    \/ \E w \in WriteInputs, ok \in BOOLEAN : StWriteSettles(w, ok)

InitOrders == AllIdle

SpecOrders == InitOrders /\ [][NextOrders]_vars

NextGateway ==
    \/ \E route \in ProxyRoutes, complete \in BOOLEAN : GwRequest(route, complete)
    \/ \E outcome \in UpstreamOutcomes : GwUpstreamSettles(outcome)

InitGateway == AllIdle

SpecGateway == InitGateway /\ [][NextGateway]_vars

(***************************************************************************)
(* Properties of the readiness poller (checked under SpecPoller).          *)
(***************************************************************************)
\* k is the first attempt on which the endpoint answers HTTP 200.
FirstHealthyOn(k) ==
    /\ EndpointAnswer(k) = "ok200"
    /\ \A j \in 1..(k - 1) : EndpointAnswer(j) # "ok200"

\* Every probe against the endpoint fails: transport error, timeout or
\* error status.
PermanentlyUnhealthy ==
    \A n \in 1..(wfsMax + 1) : EndpointAnswer(n) \in {"err500", "timeout", "netErr"}

\* C1: when the endpoint first answers 200 on probe k <= maxAttempts,
\* waitForService never issues more than k probes and returns true after
\* exactly k probes.
C1_ReadyOnAttemptK ==
    \A k \in 1..wfsMax :
        (wfsPc # "idle" /\ FirstHealthyOn(k)) =>
            /\ wfsProbes <= k
            /\ wfsPc # "threw"
            /\ wfsPc = "done" => (wfsResult = "true" /\ wfsProbes = k)

\* The endpoint became healthy on the second of three allowed attempts and
\* the call has returned true.
C1_Witness ==
    /\ wfsPc = "done"
    /\ wfsMax = 3
    /\ FirstHealthyOn(2)
    /\ wfsResult = "true"
    /\ wfsProbes = 2

\* C2: against an endpoint whose every probe fails, waitForService issues
\* exactly maxAttempts probes and then returns false, and no exception
\* leaves it, for every maxAttempts >= 0.
C2_ExhaustionReturnsFalse ==
    (wfsPc # "idle" /\ PermanentlyUnhealthy) =>
        /\ wfsProbes <= wfsMax
        /\ wfsPc # "threw"
        /\ wfsPc = "done" => (wfsResult = "false" /\ wfsProbes = wfsMax)

\* Three probes were issued against a permanently failing endpoint and the
\* call has returned false.
C2_Witness ==
    /\ wfsPc = "done"
    /\ PermanentlyUnhealthy
    /\ wfsMax = 3
    /\ wfsProbes = 3
    /\ wfsResult = "false"

\* C3: a cancellation signal that arrives while waitForService is polling,
\* before maxAttempts probes have been issued, stops the polling before
\* maxAttempts probes and makes the call return false.
C3_CancelStopsPolling ==
    (cancelSignal /\ wfsCancelAt < wfsMax) =>
        /\ wfsProbes < wfsMax
        /\ wfsPc = "done" => wfsResult = "false"

(***************************************************************************)
(* Properties of the command runner (checked under SpecCommand).           *)
(***************************************************************************)
\* C4: every call of runDockerCommand / runCommand starts exactly one
\* process, never raises, and returns success exactly when the process
\* exits with status 0 within the hard timeout: 60 s for runDockerCommand,
\* 120 s for runCommand unless the caller passes another timeout.
C4_RunnerContract ==
    /\ cmdPc # "threw"
    /\ cmdSpawns = cmdCalls
    /\ cmdPc = "done" =>
          LET limit == IF cmdFn = "runDockerCommand" THEN 60000
                       ELSE IF cmdOptTimeout = 0 THEN 120000
                       ELSE cmdOptTimeout
          IN  /\ cmdResult \in {"success", "failure"}
              /\ cmdResult = "success" <=> (cmdExit = 0 /\ cmdDur <= limit)

\* A docker command that would have exited 0 after 61 s was cut off by the
\* 60 s timeout and reported as a failure.
C4_Witness ==
    /\ cmdPc = "done"
    /\ cmdFn = "runDockerCommand"
    /\ cmdExit = 0
    /\ cmdDur = 61000
    /\ cmdResult = "failure"

(***************************************************************************)
(* Properties of the comprehensive runner (checked under SpecSuites).      *)
(***************************************************************************)
Passed(key) == testResults[key] = "true"
RequiredKeys == {"distributedCommunication", "replication", "monitoring", "stressTesting"}
OptionalKeys == {"systemRecovery", "deploymentAutomation"}

\* C5: the verdict runAllTests has computed when it returns is determined
\* by the suite results alone: all-pass iff every suite passed,
\* meets-minimum iff every required suite passed and some optional suite
\* failed, failed iff some required suite failed.
C5_VerdictClassification ==
    ratReturn # "none" =>
        /\ verdict = "all-pass" <=> \A k \in RequiredKeys \cup OptionalKeys : Passed(k)
        /\ verdict = "meets-minimum" <=>
              /\ \A k \in RequiredKeys : Passed(k)
              /\ \E k \in OptionalKeys : ~Passed(k)
        /\ verdict = "failed" <=> \E k \in RequiredKeys : ~Passed(k)

\* C6: runAllTests returns true, and the process exits with code 0, iff
\* every required suite passed, however an optional suite failed.
C6_ExitIffRequiredPassed ==
    /\ ratReturn # "none" => (ratReturn = "true" <=> \A k \in RequiredKeys : Passed(k))
    /\ exitCode # -1 => (exitCode = 0 <=> \A k \in RequiredKeys : Passed(k))

\* The first three required suites passed, the call of the stress suite
\* threw, runAllTests returned false and the process exited with code 1.
C6_Witness ==
    /\ ratPc = "exited"
    /\ exitCode = 1
    /\ ratReturn = "false"
    /\ \A k \in {"distributedCommunication", "replication", "monitoring"} : Passed(k)
    /\ testResults["stressTesting"] = "unset"

\* C7: every run executes all six suites and produces the summary with the
\* verdict, also when a suite throws.
C7_EverySuiteRuns ==
    ratReturn # "none" =>
        /\ \A k \in RequiredKeys \cup OptionalKeys : suiteState[k] \in {"returned", "threw"}
        /\ verdict # "none"

\* C8: the suites are started in the fixed order distributed communication,
\* replication, monitoring, stress, system recovery, deployment automation,
\* each only after every earlier one has returned, and never two at once.
C8_SequentialFixedOrder ==
    LET order == <<"distributedCommunication", "replication", "monitoring",
                   "stressTesting", "systemRecovery", "deploymentAutomation">>
    IN  /\ Len(startOrder) <= Len(order)
        /\ \A n \in DOMAIN startOrder :
              /\ startOrder[n] = order[n]
              /\ suiteState[order[n]] # "notStarted"
              /\ \A m \in 1..(n - 1) : suiteState[order[m]] = "returned"
        /\ Cardinality({k \in DOMAIN suiteState : suiteState[k] = "running"}) <= 1

\* The monitoring suite is running: the two suites before it have returned
\* and the three after it have not been started.
C8_Witness ==
    /\ suiteState["monitoring"] = "running"
    /\ startOrder = <<"distributedCommunication", "replication", "monitoring">>
    /\ suiteState["distributedCommunication"] = "returned"
    /\ suiteState["replication"] = "returned"
    /\ suiteState["stressTesting"] = "notStarted"

(***************************************************************************)
(* Properties of the recovery scenarios (checked under SpecRecovery).      *)
(***************************************************************************)
\* The n-th executed step of the current scenario failed.
FailedAt(n) ==
    IF scLog[n] = "probeGatewayDown" THEN scObs[n] = "ok"
    ELSE \/ scObs[n] = "err"
         \/ \E id \in Sought(Steps(scName)[n]) : id \notin {u.id : u \in scRead}
         \/ (Sought(Steps(scName)[n]) # {} /\ scEnvelope = "object")

StepNames(scenario) == [n \in DOMAIN Steps(scenario) |-> Steps(scenario)[n].name]
KindOf(scenario, n) == Steps(scenario)[n].kind

\* C9: the steps of a scenario run in their written order and the first
\* failing step ends the run as failed: nothing is executed after it; in
\* particular after a failed fault-injection command no heal command, no
\* readiness poll and no post-validation read is performed.
C9_OrderedShortCircuit ==
    scName # "none" =>
        /\ Len(scLog) <= Len(Steps(scName))
        /\ scLog = SubSeq(StepNames(scName), 1, Len(scLog))
        /\ \A n \in 1..(Len(scLog) - 1) : ~FailedAt(n)
        /\ (Len(scLog) > 0 /\ FailedAt(Len(scLog))) =>
              (rsPc # "steps" /\ rsResults[scName] = "false")
        /\ \A n \in DOMAIN scLog :
              (KindOf(scName, n) = "fault" /\ scObs[n] = "err") =>
                 \A m \in DOMAIN scLog :
                    m > n => KindOf(scName, m) \notin {"heal", "poll", "read"}
        /\ rsResults[scName] = "true" => Len(scLog) = Len(Steps(scName))

\* The stop command of the Cassandra scenario failed: the scenario returned
\* false with the stop command as its last executed step.
C9_Witness ==
    /\ scName = "cassandraNodeRecovery"
    /\ scLog = <<"createUser", "stopCassandra2">>
    /\ scObs = <<"ok", "err">>
    /\ rsResults["cassandraNodeRecovery"] = "false"
    /\ rsPc = "next"

\* The current scenario has created test data or issued an infrastructure
\* command.
TouchedSystem ==
    \E n \in DOMAIN scLog :
        \/ KindOf(scName, n) = "data" /\ scObs[n] = "ok"
        \/ KindOf(scName, n) \in {"fault", "heal"}

\* C10 as claimed: every scenario first asserts the health of gateway, user
\* service and order service, and with any of them unhealthy it fails before
\* creating test data or issuing an infrastructure command.
C10_BaselineInEveryScenario ==
    (scName # "none" /\ scUp # Components) => ~TouchedSystem

\* C10 amended: testServiceRecovery first asserts the health of all three
\* components and fails before any test data or command when one is
\* unhealthy; testAPIGatewayRecovery first asserts the gateway's health
\* alone and fails before any command when the gateway is unhealthy;
\* testCassandraNodeRecovery and testCompleteSystemRecovery assert no
\* baseline health and start by creating test data.
C10_BaselineWhereAsserted ==
    (scName # "none" /\ Len(scLog) > 0) =>
        /\ scName = "serviceRecovery" =>
              /\ scLog[1] = "checkAllServicesHealth"
              /\ scUp # Components =>
                    (~TouchedSystem /\ Len(scLog) = 1
                        /\ rsResults[scName] = "false" /\ rsPc # "steps")
              /\ scUp = Components => ~FailedAt(1)
        /\ scName = "apiGatewayRecovery" =>
              /\ scLog[1] = "gatewayHealth"
              /\ "gateway" \notin scUp =>
                    (~TouchedSystem /\ Len(scLog) = 1
                        /\ rsResults[scName] = "false" /\ rsPc # "steps")
              /\ "gateway" \in scUp => ~FailedAt(1)
        /\ scName \in {"cassandraNodeRecovery", "completeSystemRecovery"} =>
              /\ scLog[1] = "createUser"
              /\ KindOf(scName, 1) = "data"

\* testServiceRecovery found the order service unhealthy and returned false
\* with the health assertion as its only step.
C10_Witness ==
    /\ scName = "serviceRecovery"
    /\ scUp = {"gateway", "user"}
    /\ scLog = <<"checkAllServicesHealth">>
    /\ rsResults["serviceRecovery"] = "false"

\* The ids of the records the scenario's post-recovery read returned.
ReadIds == {u.id : u \in scRead}

\* C11 as claimed: a scenario ends as passed only if the record it created
\* before the fault was read back after recovery with the payload that was
\* posted; a missing record or a different payload ends it as failed.
C11_PassedOnlyWithIntactMarker ==
    (scName # "none" /\ rsResults[scName] = "true") =>
        /\ PreFaultMarkers(scName) # {}
        /\ \A id \in PreFaultMarkers(scName) :
              [id |-> id, payload |-> "orig"] \in scRead

\* C11 amended: testServiceRecovery, testCassandraNodeRecovery and
\* testCompleteSystemRecovery end as passed only if every record created
\* before the fault is found by its id in the list read back after
\* recovery, whatever payload it carries; when the read resolves without
\* such a record the scenario ends as failed.  testAPIGatewayRecovery reads
\* no record back: it ends as passed only if its last health request
\* resolved.
C11_PassedOnlyWithMarkerFound ==
    scName # "none" =>
        /\ (rsResults[scName] = "true" /\ scName # "apiGatewayRecovery") =>
              (PreFaultMarkers(scName) # {} /\ PreFaultMarkers(scName) \subseteq ReadIds)
        /\ (rsResults[scName] = "true" /\ scName = "apiGatewayRecovery") =>
              (scRead = {} /\ scLog[Len(scLog)] = "gatewayHealthAfterRecovery"
                 /\ scObs[Len(scObs)] = "ok")
        /\ ( /\ Len(scLog) = Len(Steps(scName))
             /\ scName # "apiGatewayRecovery"
             /\ ~(PreFaultMarkers(scName) \subseteq ReadIds) ) =>
              (rsResults[scName] = "false" /\ rsPc # "steps")

\* testServiceRecovery returned true although the user it created was read
\* back with a different payload.
C11_Witness ==
    /\ scName = "serviceRecovery"
    /\ Len(scLog) = 6
    /\ scRead = {[id |-> "u1", payload |-> "other"]}
    /\ scEnvelope = "array"
    /\ rsResults["serviceRecovery"] = "true"

\* C12: no scenario lets an exception escape: whichever statement fails,
\* the scenario returns false, and every scenario that has ended has
\* returned true or false to the suite.
C12_ScenariosReturnBooleans ==
    /\ rsPc # "threw"
    /\ (scName # "none" /\ rsPc \in {"next", "done"}) =>
          rsResults[scName] \in {"true", "false"}
    /\ (scName # "none" /\ Len(scLog) > 0 /\ FailedAt(Len(scLog))) =>
          rsResults[scName] = "false"
    /\ rsPc = "done" =>
          (\A k \in DOMAIN rsResults : rsResults[k] \in {"true", "false"})
             /\ rsReturn \in {"true", "false"}

\* The first statement of testCompleteSystemRecovery, the POST creating the
\* user, was rejected and the scenario returned false.
C12_Witness ==
    /\ scName = "completeSystemRecovery"
    /\ scLog = <<"createUser">>
    /\ scObs = <<"err">>
    /\ rsResults["completeSystemRecovery"] = "false"
    /\ rsPc = "next"

(***************************************************************************)
(* Properties of the load generator (checked under SpecLoad).              *)
(***************************************************************************)
\* The requests that have settled, and those among them that were served.
SettledOk == {x \in lgSettled : x.outcome = "ok"}
SettledFailed == {x \in lgSettled : x.outcome # "ok"}

\* What the current run has added to the accumulator it started from.
AddedTotal == testMetrics.totalRequests - lgCarried.totalRequests
AddedSuccessful == testMetrics.successfulRequests - lgCarried.successfulRequests
AddedFailed == testMetrics.failedRequests - lgCarried.failedRequests
AddedTimes == Len(testMetrics.responseTimes) - Len(lgCarried.responseTimes)
AddedErrors ==
    {testMetrics.errors[k] : k \in (Len(lgCarried.errors) + 1)..Len(testMetrics.errors)}

\* The requests of user i that are in flight.
InflightOf(i) == {p \in lgInflight : p[1] = i}

\* C13: in every reachable state of a load run, whatever the interleaving
\* of the virtual users, successfulRequests + failedRequests equals
\* totalRequests.
C13_CountersAddUp ==
    testMetrics.successfulRequests + testMetrics.failedRequests
        = testMetrics.totalRequests

\* Two users run interleaved: one request was served, one was rejected and
\* a third is still in flight.
C13_Witness ==
    /\ lgPc = "running"
    /\ lgC = 2
    /\ testMetrics.successfulRequests = 1
    /\ testMetrics.failedRequests = 1
    /\ lgInflight # {}

\* C14: no outcome is lost: when a load run with c users and r requests per
\* user has joined, the accumulator and the summary report exactly c * r
\* requests, whatever the interleaving and the pattern of successes and
\* failures.
C14_NoOutcomeLost ==
    lgPc = "done" =>
        /\ AddedTotal = lgC * lgR
        /\ Cardinality(lgSettled) = lgC * lgR
        /\ lgKind \in {"user", "order", "mixed"} =>
              (Len(lgSummary) = 1 /\ lgSummary[1].totalRequests = lgC * lgR)

\* A stress test of two users with two requests each has returned after
\* served and rejected requests.
C14_Witness ==
    /\ lgPc = "done"
    /\ lgKind = "user"
    /\ lgC = 2
    /\ lgR = 2
    /\ SettledOk # {}
    /\ SettledFailed # {}
    /\ lgSummary[1].totalRequests = 4

\* C15: the end time is taken, the summary is computed and the result is
\* returned only after every virtual user has finished all of its requests:
\* at that moment no request is in flight or uncounted.
C15_JoinBeforeSummary ==
    (testMetrics.endTime # lgCarried.endTime \/ lgSummary # << >> \/ lgResult # "none") =>
        /\ \A i \in UserIds(lgC) : lgUserPc[i] = "done" /\ lgReq[i] = lgR
        /\ lgInflight = {}
        /\ Cardinality(lgSettled) = lgC * lgR
        /\ AddedTotal = Cardinality(lgSettled)

\* The mixed load test of two users has stamped its end time after the
\* start of its second user and returned.
C15_Witness ==
    /\ lgPc = "done"
    /\ lgKind = "mixed"
    /\ lgC = 2
    /\ testMetrics.endTime = 2500
    /\ lgResult # "none"

\* C16 as claimed: whenever load is generated, user i of c does not send its
\* first request before i / c of the ramp-up time has elapsed.
C16_RampUpWheneverLoad ==
    \A i \in UserIds(lgC) :
        lgFirstIssue[i] # -1 => lgFirstIssue[i] * lgC >= i * RampUpTime

\* C16 amended: in the three stress tests user i of c sends its first
\* request no earlier than 1 ms before the whole milliseconds of i / c of
\* the ramp-up time have elapsed since the start (measured, as startTime is,
\* with Date.now()), a delay that is 0 for user 0, grows with i and stays
\* below the ramp-up time; monitorSystemPerformance applies no ramp-up: all
\* of its users send their first request when it is called.
C16_RampUpInStressTests ==
    /\ lgKind \in {"user", "order", "mixed"} =>
          \A i \in UserIds(lgC) :
              /\ lgFirstIssue[i] # -1 =>
                    lgFirstIssue[i] - testMetrics.startTime + 1 >= (i * RampUpTime) \div lgC
              /\ (lgUserPc[i] = "timer") = (lgFirstIssue[i] = -1)
              /\ i * RampUpTime < lgC * RampUpTime
    /\ lgKind = "monitor" =>
          \A i \in UserIds(lgC) : lgFirstIssue[i] = 0 /\ lgUserPc[i] # "timer"

\* In a stress test of two users, user 0 sent its first request at the
\* start and user 1 at 2499 ms, 1 ms before half the ramp-up time.
C16_Witness ==
    /\ lgKind = "user"
    /\ lgC = 2
    /\ lgFirstIssue[0] = 0
    /\ lgFirstIssue[1] = 2499

\* C17: a virtual user has at most one request in flight and sends its
\* requests one after another, each only after the previous one settled;
\* so at most c requests are in flight.
C17_OneInFlightPerUser ==
    /\ \A i \in UserIds(lgC) : Cardinality(InflightOf(i)) <= 1
    /\ Cardinality(lgInflight) <= lgC
    /\ \A p \in lgInflight :
          /\ p[2] = lgReq[p[1]]
          /\ \A k \in 1..(p[2] - 1) :
                \E x \in lgSettled : x.user = p[1] /\ x.req = k

\* Both users have a request in flight, user 0 its second one.
C17_Witness ==
    lgInflight = {<<0, 2>>, <<1, 1>>}

\* C18 as claimed: every request that settled, served or not, is counted
\* and has its latency recorded.
C18_FailuresRecordedWithLatency ==
    /\ AddedTotal = Cardinality(lgSettled)
    /\ AddedTimes = Cardinality(lgSettled)

\* C18 amended: every request that times out or is rejected is counted as
\* attempted and as failed and its error message is recorded, so that no
\* settled request is missing from the counts; response times are recorded
\* for served requests only.
C18_FailuresCountedWithoutLatency ==
    /\ AddedTotal = Cardinality(lgSettled)
    /\ AddedFailed = Cardinality(SettledFailed)
    /\ Len(testMetrics.errors) - Len(lgCarried.errors) = Cardinality(SettledFailed)
    /\ AddedErrors = {ErrorMessage(x.outcome) : x \in SettledFailed}
    /\ AddedSuccessful = Cardinality(SettledOk)
    /\ AddedTimes = Cardinality(SettledOk)

\* The only request settled so far timed out: it is counted as failed with
\* its message and no response time.
C18_Witness ==
    /\ lgSettled = {[user |-> 0, req |-> 1, outcome |-> "timeout"]}
    /\ testMetrics.failedRequests = 1
    /\ testMetrics.errors = <<"timeout of 10000ms exceeded">>
    /\ testMetrics.responseTimes = << >>

(***************************************************************************)
(* Properties of calculateResults and of the pass thresholds (checked      *)
(* under SpecSummary).                                                     *)
(***************************************************************************)
\* C19: calculateResults never divides by zero; without outcomes the
\* success rate and the average, minimum and maximum latency are 0, with a
\* duration of 0 the throughput is 0, and the latencies are 0 as well when
\* requests were issued but none succeeded.
C19_NoDivisionByZero ==
    lgSummary # << >> =>
        /\ lgSummary[1].successRate.den # 0
        /\ lgSummary[1].avgResponseTime.den # 0
        /\ lgSummary[1].requestsPerSecond.den # 0
        /\ testMetrics.totalRequests = 0 =>
              /\ lgSummary[1].successRate.num = 0
              /\ lgSummary[1].avgResponseTime.num = 0
              /\ lgSummary[1].minResponseTime = 0
              /\ lgSummary[1].maxResponseTime = 0
        /\ lgSummary[1].duration = 0 => lgSummary[1].requestsPerSecond.num = 0
        /\ testMetrics.successfulRequests = 0 =>
              /\ lgSummary[1].avgResponseTime.num = 0
              /\ lgSummary[1].minResponseTime = 0
              /\ lgSummary[1].maxResponseTime = 0
        /\ testMetrics.totalRequests > 0 =>
              lgSummary[1].successRate =
                 [num |-> testMetrics.successfulRequests,
                  den |-> testMetrics.totalRequests]
        /\ lgSummary[1].duration > 0 =>
              lgSummary[1].requestsPerSecond =
                 [num |-> testMetrics.totalRequests * 1000,
                  den |-> lgSummary[1].duration]

\* calculateResults has run on an accumulator without any outcome and with
\* a duration of 0.
C19_Witness ==
    /\ lgSummary # << >>
    /\ testMetrics.totalRequests = 0
    /\ testMetrics.endTime = testMetrics.startTime

\* C20: a single-service stress test returns true exactly when
\* successful / total >= 0.95, the mixed load test exactly when
\* successful / total >= 0.90; with no recorded request both return false.
C20_PassThresholds ==
    (lgPc = "done" /\ lgKind \in {"user", "order", "mixed"}) =>
        /\ lgKind \in {"user", "order"} =>
              ( lgResult = "true" <=>
                  /\ testMetrics.totalRequests > 0
                  /\ testMetrics.successfulRequests * 100
                        >= 95 * testMetrics.totalRequests )
        /\ lgKind = "mixed" =>
              ( lgResult = "true" <=>
                  /\ testMetrics.totalRequests > 0
                  /\ testMetrics.successfulRequests * 100
                        >= 90 * testMetrics.totalRequests )
        /\ lgResult \in {"true", "false"}

\* A single-service stress test with 19 of 20 requests served returned
\* true.
C20_Witness ==
    /\ lgPc = "done"
    /\ lgKind = "user"
    /\ testMetrics.totalRequests = 20
    /\ testMetrics.successfulRequests = 19
    /\ lgResult = "true"

\* C21: every load run terminates: once one of the load functions has been
\* called it eventually returns a boolean, whatever the system under test
\* does.
C21_EveryRunReturns ==
    (lgPc = "running") ~> (lgPc = "done" /\ lgResult \in {"true", "false"})

\* C25: a virtual user issues a further request only after the think-time
\* that follows the previous one, whether that one succeeded or failed.
C25_ThinkTimeBetweenRequests ==
    [][\A i \in UserIds(MaxUsers) :
          (/\ lgPc = "running" /\ lgPc' = "running"
           /\ i \in DOMAIN lgReq
           /\ lgReq[i] >= 1
           /\ lgReq'[i] = lgReq[i] + 1) => lgUserPc[i] = "think"]_vars

\* C26: in the mixed load test the latest request performed exactly one
\* operation, chosen by its sample s of [0, 1): create-user for s < 0.5,
\* create-order for 0.5 <= s < 0.8, a read of users or of orders for
\* s >= 0.8; the three ranges hold 50, 30 and 20 of the hundredths of
\* [0, 1); and every request issued is in flight or counted exactly once.
C26_OperationBySample ==
    /\ (lgKind = "mixed" /\ lgLastSample # -1) =>
          /\ lgLastSample \in 0..99
          /\ (lgLastOp = "createUser") = (lgLastSample < 50)
          /\ (lgLastOp = "createOrder") = (50 <= lgLastSample /\ lgLastSample < 80)
          /\ (lgLastOp \in {"readUsers", "readOrders"}) = (lgLastSample >= 80)
          /\ Cardinality({s \in 0..99 : Operation("mixed", s, 49) = "createUser"}) = 50
          /\ Cardinality({s \in 0..99 : Operation("mixed", s, 49) = "createOrder"}) = 30
          /\ Cardinality({s \in 0..99 : Operation("mixed", s, 49) = "readUsers"}) = 20
          /\ Cardinality({s \in 0..99 : Operation("mixed", s, 50) = "readOrders"}) = 20
    /\ lgKind = "mixed" =>
          /\ AddedTotal = Cardinality(lgSettled)
          /\ \A i \in UserIds(lgC) :
                lgReq[i] = Cardinality({x \in lgSettled : x.user = i})
                              + Cardinality(InflightOf(i))

\* A mixed run whose latest request drew 0.8 and read the orders, after an
\* earlier request was counted.
C26_Witness ==
    /\ lgKind = "mixed"
    /\ lgLastSample = 80
    /\ lgLastOp = "readOrders"
    /\ testMetrics.totalRequests = 1
    /\ lgInflight # {}

\* C27 as claimed: every load function starts from a zeroed accumulator.
C27_EveryRunStartsZeroed ==
    lgPc # "idle" =>
        /\ lgCarried.totalRequests = 0
        /\ lgCarried.successfulRequests = 0
        /\ lgCarried.failedRequests = 0
        /\ lgCarried.responseTimes = << >>
        /\ lgCarried.errors = << >>

\* C27 amended: the three stress tests reset the accumulator when they are
\* called, so that it holds the outcomes of their own run only;
\* monitorSystemPerformance does not reset it: the requests of its users
\* are added to what the run before it left there.
C27_StressTestsStartZeroed ==
    [][(lgPc # "running" /\ lgPc' = "running") =>
          IF lgKind' \in {"user", "order", "mixed"}
          THEN /\ testMetrics'.totalRequests = 0
               /\ testMetrics'.successfulRequests = 0
               /\ testMetrics'.failedRequests = 0
               /\ testMetrics'.responseTimes = << >>
               /\ testMetrics'.errors = << >>
               /\ testMetrics'.endTime = -1
          ELSE testMetrics' = testMetrics]_vars

\* monitorSystemPerformance runs after a stress test that recorded one
\* request, and has added a request of its own to the accumulator.
C27_Witness ==
    /\ lgKind = "monitor"
    /\ lgCarried.totalRequests = 1
    /\ testMetrics.totalRequests = 2

\* C23 as claimed: in every recovery scenario the post-recovery read is
\* performed only after a readiness poll that returned true.
C23_ReadOnlyAfterReadyPoll ==
    scName # "none" =>
        \A n \in DOMAIN scLog :
            KindOf(scName, n) = "read" =>
                \E m \in 1..(n - 1) : KindOf(scName, m) = "poll" /\ scObs[m] = "ok"

\* C23 amended: the service, gateway and complete-system scenarios poll
\* the readiness poller after the restart or start command and read the
\* marker data only after the poll returned true; an exhausted poll ends
\* the scenario as failed with nothing read.  The Cassandra node scenario
\* does not poll: after a successful start command it sleeps 30 s and then
\* reads.
C23_PollBeforeReadExceptCassandra ==
    scName # "none" =>
        /\ scName # "cassandraNodeRecovery" =>
              /\ \A n \in DOMAIN scLog :
                    KindOf(scName, n) = "read" =>
                        \E m \in 1..(n - 1) :
                            KindOf(scName, m) = "poll" /\ scObs[m] = "ok"
              /\ \A n \in DOMAIN scLog :
                    (KindOf(scName, n) = "poll" /\ scObs[n] = "err") =>
                        /\ n = Len(scLog)
                        /\ rsResults[scName] = "false"
                        /\ scRead = {}
        /\ scName = "cassandraNodeRecovery" =>
              /\ \A n \in DOMAIN scLog : KindOf(scName, n) # "poll"
              /\ \A n \in DOMAIN scLog :
                    KindOf(scName, n) = "read" =>
                        /\ scLog[n - 1] = "wait30s"
                        /\ scLog[n - 2] = "startCassandra2"
                        /\ scObs[n - 2] = "ok"

\* The gateway was started again but its readiness poll was exhausted: the
\* scenario returned false with the poll as its last step.
C23_Witness ==
    /\ scName = "apiGatewayRecovery"
    /\ Len(scLog) = 5
    /\ scLog[4] = "startApiGateway"
    /\ scLog[5] = "waitForGateway"
    /\ scObs[5] = "err"
    /\ rsResults["apiGatewayRecovery"] = "false"

\* C24 as claimed: every probe that did not count as ready is reported and
\* followed by the retry-interval wait before the next probe is issued:
\* between any two probes lies a wait, and every failed probe is logged.
C24_WaitBetweenProbes ==
    /\ wfsProbes <= wfsWaits + 1
    /\ wfsPc \in {"loop", "done"} =>
          wfsLogs = Cardinality({k \in 1..wfsProbes : EndpointAnswer(k) # "ok200"})

\* C28: testScalingAutomation returns true for every combination of
\* success and failure of its scale-up, status-listing and scale-down
\* commands, having run all three.
C28_ScalingAlwaysPasses ==
    /\ saReturn # "false"
    /\ saPc = "done" =>
          /\ saReturn = "true"
          /\ Len(saRuns) = 3
          /\ saLog = <<IF saRuns[1].success THEN "info" ELSE "warn",
                       IF saRuns[2].success THEN "info" ELSE "nothing",
                       IF saRuns[3].success THEN "nothing" ELSE "warn">>

\* All three commands failed, the first by its exit status, the second at
\* the timeout: the check returned true.
C28_Witness ==
    /\ saPc = "done"
    /\ saReturn = "true"
    /\ Len(saRuns) = 3
    /\ ~saRuns[1].success /\ saRuns[1].exit = 1
    /\ ~saRuns[2].success /\ saRuns[2].dur = 121000 /\ saRuns[2].exit = 0
    /\ ~saRuns[3].success

\* C22: each single-suite runner script runs its suite and exits with code
\* 0 if and only if every test of the suite passed, that is, the suite's
\* run function returned true; in particular the distributed-communication
\* runner does so.
C22_ExitZeroIffSuitePassed ==
    rnPc = "exited" =>
        /\ Len(rnChildren) = Len(ChildTests(rnScript))
        /\ rnSuiteReturn \in {"true", "false"}
        /\ (rnExit = 0) = (rnSuiteReturn = "true")
        /\ (rnExit = 0) = (\A n \in DOMAIN rnChildren : rnChildren[n] = "true")

\* C29 as claimed: the replication test passes only when the row written
\* through the first node was read back from all three nodes.
C29_PassOnlyIfOnAllNodes ==
    rpReturn = "true" =>
        /\ Len(rpReads) = 3
        /\ \A n \in DOMAIN rpReads : rpReads[n] = "found"

\* C29 amended: the replication test passes if and only if the write
\* through the first node succeeded and the row was read back from at
\* least 2 of the 3 nodes; one node on which the row is missing or the read
\* fails does not fail the test, two do, and so does a failed write.  It
\* returns after all three clients were shut down.
C29_PassIfOnTwoNodes ==
    /\ rpReturn # "none" =>
          /\ rpPc = "done"
          /\ Len(rpShutdowns) = 3
          /\ (rpReturn = "true") =
                (/\ rpWritten
                 /\ Len(rpReads) = 3
                 /\ \E a, b \in 1..3 :
                       a # b /\ rpReads[a] = "found" /\ rpReads[b] = "found")
    /\ rpPc = "done" => rpReturn \in {"true", "false"}

\* The read on the second node failed, the row was found on the two
\* others: the test returned true.
C29_Witness ==
    /\ rpPc = "done"
    /\ rpReads = <<"found", "error", "found">>
    /\ rpReturn = "true"

\* C30: the user and the order service answer no request, GET /health
\* included, before initializeDatabase has completed successfully.
C30_NoAnswerBeforeInitialized ==
    \A n \in DOMAIN svAnswers : svAnswers[n].phase = "ready"

(***************************************************************************)
(* Properties of the database module (checked under SpecDb).               *)
(***************************************************************************)
\* waitForCassandraReady has returned.
DbWaitReturned == dbWaitResult # "none"

\* The health checks that reported a healthy cluster.
DbHealthyChecks == {i \in 1..Len(dbCheckLog) : dbCheckLog[i]}

\* C32: waitForCassandraReady(maxRetries, retryInterval) returns true at the
\* first successful health check without a further check; against a cluster
\* that is never healthy it makes exactly maxRetries checks with a wait only
\* between two consecutive checks (maxRetries - 1 waits, none after the last
\* check) and returns false; it never throws.
C32_WaitForCassandraReady ==
    /\ Len(dbCheckLog) = dbChecks
    /\ DbHealthyChecks \subseteq {dbChecks}
    /\ DbHealthyChecks # {} <=> dbWaitResult = "true"
    /\ dbWaitResult = "true" =>
          /\ dbChecks = dbWaits + 1
          /\ dbChecks <= dbWaitMax
          /\ dbPc # "check" /\ dbPc # "delay"
    /\ dbWaitResult = "false" =>
          /\ dbChecks = dbWaitMax
          /\ dbWaitMax >= 1 => dbWaits = dbWaitMax - 1
          /\ dbWaitMax = 0 => dbWaits = 0
          /\ dbPc = "done"
    /\ dbPc \in {"check", "delay"} => dbWaitResult = "none"
    /\ dbFn = "waitForCassandraReady" =>
          /\ dbResult # "threw" /\ dbThrown = << >>
          /\ dbPc = "done" => dbResult = dbWaitResult /\ DbWaitReturned

\* A never-healthy cluster used up all the retries of a direct call.
C32_Witness ==
    /\ dbFn = "waitForCassandraReady"
    /\ dbWaitMax = MaxDbRetries
    /\ dbPc = "done"
    /\ dbResult = "false"
    /\ dbChecks = MaxDbRetries
    /\ dbWaits = MaxDbRetries - 1

\* The attempts of initializeDatabase that have executed a statement.
DbAttemptsMade == {dbStmts[i].attempt : i \in 1..Len(dbStmts)}

\* Attempt a ran the four statements and all of them succeeded.
DbAttemptSucceeded(a) ==
    /\ Len(DbAttemptStmts(a)) = Len(SchemaSteps)
    /\ \A i \in 1..Len(SchemaSteps) : DbAttemptStmts(a)[i].ok

\* Attempt a stopped at a failing statement.
DbAttemptFailed(a) ==
    /\ DbAttemptStmts(a) # << >>
    /\ ~DbAttemptStmts(a)[Len(DbAttemptStmts(a))].ok

\* C31: initializeDatabase(maxRetries) throws without executing any schema
\* statement when the cluster never becomes ready.  Otherwise it makes at
\* most maxRetries attempts, each running createKeyspace, useKeyspace,
\* createUsersTable, createOrdersTable in that order and stopping at the first
\* failing step; it returns true after the first attempt in which all four
\* succeed, and after maxRetries failed attempts it rethrows the error of the
\* last attempt.
C31_InitializeDatabase ==
    dbFn = "initializeDatabase" =>
        /\ dbWaitResult = "false" =>
              /\ dbResult = "threw"
              /\ dbThrown = <<"clusterNotReady">>
              /\ dbStmts = << >>
        /\ dbStmts # << >> => dbWaitResult = "true"
        /\ DbAttemptsMade \subseteq 1..dbInitMax
        /\ \A i \in 1..Len(dbStmts) : \A j \in i..Len(dbStmts) :
              dbStmts[i].attempt <= dbStmts[j].attempt
        /\ \A a \in DbAttemptsMade :
              /\ Len(DbAttemptStmts(a)) <= Len(SchemaSteps)
              /\ \A i \in 1..Len(DbAttemptStmts(a)) :
                    /\ DbAttemptStmts(a)[i].stmt = SchemaSteps[i]
                    /\ i < Len(DbAttemptStmts(a)) => DbAttemptStmts(a)[i].ok
              /\ a > 1 => (a - 1) \in DbAttemptsMade /\ DbAttemptFailed(a - 1)
              /\ DbAttemptSucceeded(a) => dbResult = "true" /\ dbPc = "done"
        /\ dbResult = "true" =>
              /\ DbAttemptsMade # {}
              /\ \E a \in DbAttemptsMade :
                    /\ DbAttemptSucceeded(a)
                    /\ \A b \in DbAttemptsMade : b <= a
        /\ (dbResult = "threw" /\ dbWaitResult = "true") =>
              /\ DbAttemptsMade = 1..dbInitMax
              /\ \A a \in 1..dbInitMax : DbAttemptFailed(a)
              /\ dbThrown = <<dbInitMax, dbStmts[Len(dbStmts)].stmt>>
              /\ dbStmts[Len(dbStmts)].attempt = dbInitMax
        /\ (dbPc = "done" /\ dbInitMax >= 1) => dbResult \in {"true", "threw"}
        /\ (\A a \in 1..dbInitMax : DbAttemptFailed(a)) /\ dbInitMax >= 1
              => dbResult = "threw"

\* The last permitted attempt was the first in which all four statements
\* succeeded.
C31_Witness ==
    /\ dbFn = "initializeDatabase"
    /\ dbInitMax = MaxDbRetries
    /\ dbResult = "true"
    /\ DbAttemptsMade = 1..MaxDbRetries
    /\ DbAttemptFailed(1)
    /\ DbAttemptSucceeded(MaxDbRetries)

(***************************************************************************)
(* Return value of monitorSystemPerformance (checked under SpecLoad).      *)
(***************************************************************************)
\* C37: monitorSystemPerformance never returns false: it returns, and then
\* true, only after a /metrics request issued by a tick that began at least
\* 30 s after the start has succeeded and the load users have finished; until
\* then the interval is not cleared and the call does not return.
C37_MonitorNeverReturnsFalse ==
    lgKind = "monitor" =>
        /\ lgResult # "false"
        /\ lgMonResolved =>
              /\ lgSnapshots > 0
              /\ lgNow >= MonitoringDuration
              /\ \E k \in lgTicks : k.at >= MonitoringDuration /\ k.st = "settled"
        /\ lgPc = "done" =>
              /\ lgResult = "true"
              /\ lgMonResolved
              /\ JoinReady(lgUserPc)
        /\ lgPc = "running" => lgResult = "none"

\* The monitor returned true although an earlier snapshot had been taken
\* before the 30 s were over.
C37_Witness ==
    /\ lgKind = "monitor"
    /\ lgPc = "done"
    /\ lgResult = "true"
    /\ lgSnapshots > 1

(***************************************************************************)
(* Heal commands of the fault scenarios (checked under SpecRecovery).      *)
(***************************************************************************)
\* The scenarios that stop a container and start it again.
StopStartScenarios == {"cassandraNodeRecovery", "apiGatewayRecovery"}

\* Position of the one step of the given kind in a stop/start scenario.
StepIndex(scenario, kind) ==
    CHOOSE n \in DOMAIN Steps(scenario) : Steps(scenario)[n].kind = kind

\* The degraded-state check of the running scenario was made and passed: the
\* user was created while the node was down, or the stopped gateway did not
\* answer.
DegradedPassed ==
    /\ Len(scObs) >= StepIndex(scName, "degraded")
    /\ scObs[StepIndex(scName, "degraded")] =
          (IF scName = "apiGatewayRecovery" THEN "err" ELSE "ok")

\* The degraded-state check was the last step made, and it failed.
DegradedFailedLast ==
    /\ Len(scObs) = StepIndex(scName, "degraded")
    /\ scObs[StepIndex(scName, "degraded")] =
          (IF scName = "apiGatewayRecovery" THEN "ok" ELSE "err")

\* The container the running scenario stops.
StoppedBy(scenario) ==
    IF scenario = "apiGatewayRecovery" THEN "api_gateway" ELSE "cassandra2"

\* C38: in testCassandraNodeRecovery and testAPIGatewayRecovery the start
\* command is issued only if the stop command succeeded and the degraded-state
\* check passed; when the degraded-state check fails the scenario returns
\* false without issuing a start command and the component stays stopped for
\* the later scenarios.
C38_StartOnlyAfterDegradedPassed ==
    scName \in StopStartScenarios =>
        /\ Len(scLog) >= StepIndex(scName, "heal") =>
              /\ scLog[StepIndex(scName, "heal")] \in {"startCassandra2", "startApiGateway"}
              /\ scObs[StepIndex(scName, "fault")] = "ok"
              /\ DegradedPassed
        /\ DegradedFailedLast =>
              /\ rsPc = "next"
              /\ rsResults[scName] = "false"
              /\ "startCassandra2" \notin {scLog[n] : n \in DOMAIN scLog}
              /\ "startApiGateway" \notin {scLog[n] : n \in DOMAIN scLog}
              /\ StoppedBy(scName) \in scStopped

\* The stopped gateway still answered: the scenario returned false and the
\* gateway container is left stopped.
C38_Witness ==
    /\ scName = "apiGatewayRecovery"
    /\ DegradedFailedLast
    /\ rsResults["apiGatewayRecovery"] = "false"
    /\ "api_gateway" \in scStopped

(***************************************************************************)
(* Run functions of the suites (checked under SpecRunner).                 *)
(***************************************************************************)
\* The suites whose run function the claim names.
C39_Suites == {"recovery", "stress", "replication", "monitoring", "deployment"}

\* C39: within a suite every child check is executed, one after the other in
\* declaration order, even when an earlier child returned false, and the
\* suite returns true exactly when every child returned true.
C39_AllChildrenRunInOrder ==
    rnScript \in C39_Suites =>
        /\ Len(rnChildren) <= Len(ChildTests(rnScript))
        /\ rnPc = "suite" =>
              /\ Len(rnChildren) < Len(ChildTests(rnScript))
              /\ rnSuiteReturn = "none"
        /\ rnSuiteReturn # "none" =>
              /\ Len(rnChildren) = Len(ChildTests(rnScript))
              /\ rnSuiteReturn = "true" <=>
                    \A i \in 1..Len(rnChildren) : rnChildren[i] = "true"
              /\ rnSuiteReturn \in {"true", "false"}

\* The first of the six monitoring checks returned false, the other five
\* were still run, and the suite returned false.
C39_Witness ==
    /\ rnScript = "monitoring"
    /\ Len(rnChildren) = 6
    /\ rnChildren[1] = "false"
    /\ \A i \in 2..6 : rnChildren[i] = "true"
    /\ rnSuiteReturn = "false"

(***************************************************************************)
(* Envelope of the list read back (checked under SpecRecovery).            *)
(***************************************************************************)
\* The last step of the running scenario was its post-recovery read, the
\* request resolved, and the list it returned holds every record looked up.
ReadHoldsMarkers ==
    /\ scName # "none"
    /\ Len(scLog) = Len(Steps(scName))
    /\ Sought(Steps(scName)[Len(scLog)]) # {}
    /\ scObs[Len(scObs)] = "ok"
    /\ Sought(Steps(scName)[Len(scLog)]) \subseteq ReadIds

\* C36: the scenarios depend on the schema only through the id of the
\* creation response: whenever the list response holds the created records,
\* whatever its envelope (bare array or wrapping object), the post-recovery
\* check finds them by id and the scenario passes.
C36_MarkerFoundInAnyEnvelope ==
    ReadHoldsMarkers => rsResults[scName] = "true"

(***************************************************************************)
(* Ids of created records (checked under SpecIds).                         *)
(***************************************************************************)
\* The row stored under the id of a create answered with 201 was not
\* written by another create.
RowKept(c) ==
    \A r \in (IF c.kind = "user" THEN stUsers ELSE stOrders) :
        r.id = c.id => r.req \in {c.req, 0}

\* C33: every successful POST /users and POST /orders assigns a unique id:
\* two creates of the same resource, concurrent or within the same clock
\* millisecond included, never receive the same id, so a create never
\* overwrites the record of another.
C33_CreatedIdsUnique ==
    /\ \A a \in stCreated : \A b \in stCreated :
          (a.kind = b.kind /\ a.req # b.req) => a.id # b.id
    /\ \A c \in stCreated : RowKept(c)

(***************************************************************************)
(* Status of the orders (checked under SpecOrders).                        *)
(***************************************************************************)
\* The status the service reports for a stored row: a null column reads as
\* pending.
StatusRead(r) == IF r.status = "null" THEN "pending" ELSE r.status

\* The table holds one row per id.
OneRowPerId == \A r \in stOrders : \A s \in stOrders : r.id = s.id => r = s

\* The request is a PUT /orders/:id.
IsOrderPut(w) == w # << >> /\ w.verb = "put" /\ w.kind = "order"

\* C35 as claimed: the stored status of every order is one of pending,
\* processing, completed, cancelled, and a PUT that carries any other status
\* value is answered 400.
C35_EveryOtherStatusRejected ==
    /\ \A r \in stOrders :
          r.status \in {"pending", "processing", "completed", "cancelled"}
    /\ (/\ IsOrderPut(stAnswered)
        /\ stAnswered.status \notin
              {"pending", "processing", "completed", "cancelled", "absent"})
          => stAnswered.code = 400

\* The request is a PUT /orders/:id that carries a status which is not
\* empty and none of the four.
OtherStatus(w) ==
    /\ IsOrderPut(w)
    /\ w.status \notin {"pending", "processing", "completed", "cancelled", "",
                        "absent"}

\* C35 amended: after any sequence of POST /orders and PUT /orders/:id the
\* service never writes a status other than pending, processing, completed,
\* cancelled: a POST always stores pending, and a PUT with any other status
\* that is not empty is answered 400, sends no UPDATE and leaves the stored
\* orders unchanged.  An empty status is taken as an absent one: the PUT
\* changes the status of no order, and is answered 400 only when it names
\* no other field.  A status is stored as null only in a row that a PUT
\* created for an id without a row, and it is reported as pending.
C35_OrderStatusValid ==
    [][ /\ OneRowPerId'
        /\ \A r \in stOrders' :
              \/ r.status \in {"pending", "processing", "completed", "cancelled"}
              \/ r.status = "null" /\ r.req = 0 /\ StatusRead(r) = "pending"
        /\ \A c \in stCreated' \ stCreated :
              c.kind = "order" =>
                 \E r \in stOrders' :
                    r.id = c.id /\ r.req = c.req /\ r.status = "pending"
        /\ \A w \in stWrites' : ~OtherStatus(w)
        /\ OtherStatus(stAnswered') => stAnswered'.code = 400
        /\ (OtherStatus(stAnswered') /\ stAnswered' # stAnswered) => stOrders' = stOrders
        /\ \A w \in stWrites \ stWrites' :
              (IsOrderPut(w) /\ w.status \in {"", "absent"}) =>
                 /\ stOrders \subseteq stOrders'
                 /\ \A r \in stOrders' \ stOrders : r.status = "null"
        /\ (/\ IsOrderPut(stAnswered') /\ stAnswered' # stAnswered
            /\ stAnswered'.status \in {"", "absent"} /\ stAnswered'.code = 400)
              => (stOrders' = stOrders /\ stWrites' = stWrites)
      ]_vars

\* An order was completed by a PUT, and a later PUT for the same order
\* asking for status shipped was answered 400.
C35_Witness ==
    /\ OtherStatus(stAnswered)
    /\ stAnswered.status = "shipped"
    /\ stAnswered.code = 400
    /\ stOps > 1
    /\ \E r \in stOrders : r.id = stAnswered.id /\ r.req # 0 /\ r.status = "completed"

(***************************************************************************)
(* Proxy handlers of the gateway (checked under SpecGateway).              *)
(***************************************************************************)
\* C34: each gateway proxy handler sends exactly one response per request and
\* lets no upstream failure escape: an upstream error status is answered with
\* the same status and body, and a request that got no upstream response
\* (network error or timeout) is answered 503.
C34_OneResponsePerRequest ==
    /\ gwPc = "forwarding" => gwSent = << >>
    /\ gwPc = "done" =>
          /\ Len(gwSent) = 1
          /\ (gwUpstream.kind = "response" /\ gwUpstream.status \notin {200, 201}) =>
                /\ gwSent[1].status = gwUpstream.status
                /\ gwSent[1].body = gwUpstream.body
          /\ gwUpstream.kind \in {"network", "timeout"} => gwSent[1].status = 503

\* The second request, a POST /api/orders, timed out upstream and was
\* answered 503.
C34_Witness ==
    /\ gwPc = "done"
    /\ gwCalls = 2
    /\ gwRoute = "POST /api/orders"
    /\ gwUpstream.kind = "timeout"
    /\ gwSent = << [status |-> 503, body |-> "unavailable"] >>
====
